---- MODULE Spec2Model ----
(***************************************************************************)
(* A model of the waiir interpreter (the Monkey language): the Pratt       *)
(* parser over token sequences, the tree-walking evaluator with its chain  *)
(* of environment frames, and the read-eval-print loop of main.rs that     *)
(* evaluates one input after the other against one root environment.       *)
(***************************************************************************)
EXTENDS Integers, Sequences, FiniteSets, TLC

(***************************************************************************)
(* Tokens (lexer/token.rs).  A token is a record with a type and, for      *)
(* Ident, Int and String, a payload.  A string payload is the sequence of  *)
(* its characters.                                                         *)
(***************************************************************************)
tIllegal == [type |-> "Illegal"]
tEof == [type |-> "Eof"]
tIdent(name) == [type |-> "Ident", s |-> name]
tInt(value) == [type |-> "Int", i |-> value]
tString(chars) == [type |-> "String", str |-> chars]
tAssign == [type |-> "Assign"]
tPlus == [type |-> "Plus"]
tMinus == [type |-> "Minus"]
tBang == [type |-> "Bang"]
tAsterisk == [type |-> "Asterisk"]
tSlash == [type |-> "Slash"]
tLt == [type |-> "Lt"]
tGt == [type |-> "Gt"]
tEq == [type |-> "Eq"]
tNotEq == [type |-> "NotEq"]
tComma == [type |-> "Comma"]
tSemicolon == [type |-> "Semicolon"]
tColon == [type |-> "Colon"]
tLParen == [type |-> "LParen"]
tRParen == [type |-> "RParen"]
tLBrace == [type |-> "LBrace"]
tRBrace == [type |-> "RBrace"]
tLBracket == [type |-> "LBracket"]
tRBracket == [type |-> "RBracket"]
tTrue == [type |-> "True"]
tFalse == [type |-> "False"]
tFunction == [type |-> "Function"]
tLet == [type |-> "Let"]
tIf == [type |-> "If"]
tElse == [type |-> "Else"]
tReturn == [type |-> "Return"]

(***************************************************************************)
(* Integers.  The interpreter computes on i64 and the lexer reads numbers  *)
(* into a u32; the model keeps both types and their order but scales the   *)
(* widths down so that every value can be tried.                           *)
(***************************************************************************)
\* IntBits is the width of the model's i64: the integers are scaled down
\* from 64 bits so that every value of the type can be tried
IntBits == 6
i64_MAX == 2 ^ (IntBits - 1) - 1
i64_MIN == -(2 ^ (IntBits - 1))
\* the two's-complement value of v in IntBits bits
wrapping(v) == ((v + 2 ^ (IntBits - 1)) % 2 ^ IntBits) - 2 ^ (IntBits - 1)

\* whether the build checks integer overflow (a debug build does, a release
\* build does not): true or false for a whole run
VARIABLE overflow_checks

\* LexBits is the width of the model's u32, narrower than the i64
LexBits == 4
u32_MAX == 2 ^ LexBits - 1

(***************************************************************************)
(* The lexer (lexer/mod.rs).  A text is the sequence of its characters; a  *)
(* character is a string, an ASCII character itself and any other one its  *)
(* name.  The Lexer is the text and pos, the place of ch in it: ch is None *)
(* when pos is past the end, and the iterator stands behind ch.            *)
(***************************************************************************)
AsciiLower ==
    {"a", "b", "c", "d", "e", "f", "g", "h", "i", "j", "k", "l", "m", "n",
     "o", "p", "q", "r", "s", "t", "u", "v", "w", "x", "y", "z"}
AsciiUpper ==
    {"A", "B", "C", "D", "E", "F", "G", "H", "I", "J", "K", "L", "M", "N",
     "O", "P", "Q", "R", "S", "T", "U", "V", "W", "X", "Y", "Z"}
AsciiDigit == {"0", "1", "2", "3", "4", "5", "6", "7", "8", "9"}
\* a letter outside ASCII
OtherAlphabetic == {"e_acute"}
\* a numeric character that is no decimal digit
OtherNumeric == {"superscript_two"}
\* char::is_ascii_lowercase
is_ascii_lowercase(c) == c \in AsciiLower
\* char::is_alphabetic and char::is_numeric, the Unicode properties
is_alphabetic(c) == c \in AsciiLower \cup AsciiUpper \cup OtherAlphabetic
is_numeric(c) == c \in AsciiDigit \cup OtherNumeric
\* ch.to_digit(10): Some(digit) for an ASCII digit, None for any other char
to_digit(c) ==
    CASE c = "0" -> <<0>> [] c = "1" -> <<1>> [] c = "2" -> <<2>> [] c = "3" -> <<3>>
      [] c = "4" -> <<4>> [] c = "5" -> <<5>> [] c = "6" -> <<6>> [] c = "7" -> <<7>>
      [] c = "8" -> <<8>> [] c = "9" -> <<9>> [] OTHER -> <<>>

ch(text, pos) == IF pos <= Len(text) THEN <<text[pos]>> ELSE <<>>
peek_char(text, pos) == ch(text, pos + 1)
\* self.ch = self.chars_iter.next(): an exhausted iterator stays exhausted
advance_char(text, pos) == IF pos <= Len(text) THEN pos + 1 ELSE pos
\* Lexer::init: ch is None, then one advance_char
Lexer_init(text) == advance_char(text, 0)

RECURSIVE skip_whitespace(_, _)
skip_whitespace(text, pos) ==
    IF ch(text, pos) # <<>> /\ ch(text, pos)[1] \in {" ", "\t", "\n", "\r"}
    THEN skip_whitespace(text, advance_char(text, pos))
    ELSE pos

\* a lexer function returns [res, tok, pos]: the token and the lexer after
\* it, or res = "Panic"
LexOk(tok, pos) == [res |-> "Ok", tok |-> tok, pos |-> pos]
LexPanic(pos) == [res |-> "Panic", tok |-> tIllegal, pos |-> pos]

\* the while loop of parse_identifier
RECURSIVE parse_identifier_loop(_, _, _)
parse_identifier_loop(text, pos, output) ==
    IF ch(text, pos) = <<>> THEN [output |-> output, pos |-> pos]
    ELSE LET pushed == output \o text[pos]
             peek == peek_char(text, pos)
         IN  IF peek # <<>> /\ is_alphabetic(peek[1])
             THEN parse_identifier_loop(text, advance_char(text, pos), pushed)
             ELSE [output |-> pushed, pos |-> pos]

parse_identifier(text, pos) ==
    LET r == parse_identifier_loop(text, pos, "")
        token == CASE r.output = "fn" -> tFunction
                   [] r.output = "let" -> tLet
                   [] r.output = "true" -> tTrue
                   [] r.output = "false" -> tFalse
                   [] r.output = "if" -> tIf
                   [] r.output = "else" -> tElse
                   [] r.output = "return" -> tReturn
                   [] OTHER -> tIdent(r.output)
    IN  LexOk(token, r.pos)

\* the while loop of parse_number; output is a u32.  to_digit(10).unwrap()
\* panics on None; output * 10 + digit overflows the u32 into a panic where
\* the build checks it and into the wrapped value where not
RECURSIVE parse_number_loop(_, _, _)
parse_number_loop(text, pos, output) ==
    IF ch(text, pos) = <<>> THEN LexOk(tInt(output), pos)
    ELSE LET digit == to_digit(text[pos])
         IN  IF digit = <<>> THEN LexPanic(pos)
             ELSE LET exact == output * 10 + digit[1]
                      peek == peek_char(text, pos)
                  IN  IF exact > u32_MAX /\ overflow_checks THEN LexPanic(pos)
                      ELSE IF peek # <<>> /\ is_numeric(peek[1])
                           THEN parse_number_loop(text, advance_char(text, pos),
                                                  exact % 2 ^ LexBits)
                      ELSE LexOk(tInt(exact % 2 ^ LexBits), pos)

\* Token::Int(output as i64): every u32 is an i64
parse_number(text, pos) == parse_number_loop(text, pos, 0)

\* the while loop of parse_string
RECURSIVE parse_string_loop(_, _, _)
parse_string_loop(text, pos, string) ==
    IF ch(text, pos) # <<>> /\ ch(text, pos) # <<"\"">>
    THEN parse_string_loop(text, advance_char(text, pos), Append(string, text[pos]))
    ELSE LexOk(tString(string), pos)

parse_string(text, pos) == parse_string_loop(text, advance_char(text, pos), <<>>)

\* the token of a character that is a token on its own
punctuation(c) ==
    CASE c = "+" -> tPlus [] c = "-" -> tMinus [] c = "*" -> tAsterisk
      [] c = "/" -> tSlash [] c = "<" -> tLt [] c = ">" -> tGt
      [] c = "," -> tComma [] c = ";" -> tSemicolon [] c = ":" -> tColon
      [] c = "(" -> tLParen [] c = ")" -> tRParen [] c = "{" -> tLBrace
      [] c = "}" -> tRBrace [] c = "[" -> tLBracket [] c = "]" -> tRBracket

next_token(text, pos) ==
    LET at == skip_whitespace(text, pos)
        c == ch(text, at)
        token ==
            CASE c = <<>> -> LexOk(tEof, at)
              [] c = <<"=">> ->
                   IF peek_char(text, at) = <<"=">>
                   THEN LexOk(tEq, advance_char(text, at)) ELSE LexOk(tAssign, at)
              [] c = <<"!">> ->
                   IF peek_char(text, at) = <<"=">>
                   THEN LexOk(tNotEq, advance_char(text, at)) ELSE LexOk(tBang, at)
              [] c # <<>> /\ c[1] \in {"+", "-", "*", "/", "<", ">", ",", ";", ":",
                                       "(", ")", "{", "}", "[", "]"} ->
                   LexOk(punctuation(c[1]), at)
              [] c # <<>> /\ c[1] \in AsciiLower -> parse_identifier(text, at)
              [] c # <<>> /\ c[1] \in AsciiDigit -> parse_number(text, at)
              [] c = <<"\"">> -> parse_string(text, at)
              [] OTHER -> LexOk(tIllegal, at)
    IN  IF token.res = "Panic" THEN token
        ELSE [token EXCEPT !.pos = advance_char(text, token.pos)]

\* the loop of get_all_tokens: [res, tokens]
RECURSIVE get_all_tokens_loop(_, _, _)
get_all_tokens_loop(text, pos, output) ==
    LET t == next_token(text, pos)
    IN  IF t.res = "Panic" THEN [res |-> "Panic", tokens |-> output]
        ELSE IF t.tok = tEof THEN [res |-> "Ok", tokens |-> Append(output, t.tok)]
        ELSE get_all_tokens_loop(text, t.pos, Append(output, t.tok))

get_all_tokens(text) == get_all_tokens_loop(text, Lexer_init(text), <<>>)

(***************************************************************************)
(* The AST (ast/expression.rs, ast/statement.rs).  An Option is a sequence *)
(* of length 0 (None) or 1 (Some).                                         *)
(***************************************************************************)
ExprBool(value) == [ex |-> "Bool", b |-> value]
ExprInt(value) == [ex |-> "Int", i |-> value]
ExprIdent(name) == [ex |-> "Ident", s |-> name]
ExprString(chars) == [ex |-> "String", str |-> chars]
ExprInfix(op, l, r) == [ex |-> "Infix", operator |-> op, left |-> l, right |-> r]
ExprPrefix(op, r) == [ex |-> "Prefix", operator |-> op, right |-> r]
ExprFunc(params, stmts) == [ex |-> "Func", args |-> params, body |-> stmts]
ExprCall(f, arguments) == [ex |-> "Call", func |-> f, args |-> arguments]
ExprCond(c, t, e) == [ex |-> "Cond", cond |-> c, then_ |-> t, else_ |-> e]
ExprArray(content) == [ex |-> "Array", elems |-> content]
ExprHash(content) == [ex |-> "Hash", pairs |-> content]

StmtLet(n, v) == [st |-> "Let", name |-> n, value |-> v]
StmtReturn(v) == [st |-> "Return", value |-> v]
StmtExpr(e) == [st |-> "Expr", expr |-> e]
StmtBlock(stmts) == [st |-> "Block", stmts |-> stmts]

(***************************************************************************)
(* Operator precedences of the Pratt parser, low to high.                  *)
(***************************************************************************)
Lowest == 0
Equals == 1
LessGreater == 2
Sum == 3
Product == 4
Prefix == 5
Call == 6
Index == 7

get_from_token(tok) ==
    CASE tok.type \in {"Eq", "NotEq"} -> Equals
      [] tok.type \in {"Lt", "Gt"} -> LessGreater
      [] tok.type \in {"Plus", "Minus"} -> Sum
      [] tok.type \in {"Asterisk", "Slash"} -> Product
      [] tok.type = "LParen" -> Call
      [] tok.type = "LBracket" -> Index
      [] OTHER -> Lowest

(***************************************************************************)
(* The parser (parser/mod.rs).  The lexer's output is the token sequence   *)
(* ts; once it is exhausted next_token returns Eof for ever.  The parser   *)
(* state is the position p of curr_token; peek_token is the token after    *)
(* it, and advance_token adds one to p.  Every parse function returns      *)
(* [ok, node, p]: Ok(node) with the parser left at p, or an error.         *)
(***************************************************************************)
curr_token(ts, p) == IF p <= Len(ts) THEN ts[p] ELSE tEof
peek_token(ts, p) == curr_token(ts, p + 1)
peek_precedence(ts, p) == get_from_token(peek_token(ts, p))
curr_precedence(ts, p) == get_from_token(curr_token(ts, p))

ParseOk(n, q) == [ok |-> TRUE, node |-> n, p |-> q]
ParseErr(q) == [ok |-> FALSE, p |-> q]

\* TryFrom<&Token>; "Invalid" stands for the Err of the bail! arm
PrefixOperator_try_from(tok) ==
    CASE tok.type = "Bang" -> "Not"
      [] tok.type = "Minus" -> "Neg"
      [] OTHER -> "Invalid"

InfixOperator_try_from(tok) ==
    CASE tok.type = "Plus" -> "Add"
      [] tok.type = "Minus" -> "Sub"
      [] tok.type = "Asterisk" -> "Mul"
      [] tok.type = "Slash" -> "Div"
      [] tok.type = "Eq" -> "Eq"
      [] tok.type = "NotEq" -> "NotEq"
      [] tok.type = "Gt" -> "Gt"
      [] tok.type = "Lt" -> "Lt"
      [] tok.type = "LBracket" -> "Index"
      [] OTHER -> "Invalid"

\* self.f(..): a call of the parser function f, made through Parser
RECURSIVE Parser(_, _)
self_parse_statement(ts, p) == Parser("parse_statement", <<ts, p>>)
self_parse_block_loop(ts, p, x) == Parser("parse_block_loop", <<ts, p, x>>)
self_parse_expression(ts, p, x) == Parser("parse_expression", <<ts, p, x>>)
self_parse_expression_loop(ts, p, x, y) == Parser("parse_expression_loop", <<ts, p, x, y>>)
self_parse_prefix(ts, p) == Parser("parse_prefix", <<ts, p>>)
self_parse_infix_expression(ts, p, x) == Parser("parse_infix_expression", <<ts, p, x>>)
self_parse_array_loop(ts, p, x) == Parser("parse_array_loop", <<ts, p, x>>)
self_parse_hash_loop(ts, p, x) == Parser("parse_hash_loop", <<ts, p, x>>)
self_parse_if_expression(ts, p) == Parser("parse_if_expression", <<ts, p>>)
self_parse_fn_expression(ts, p) == Parser("parse_fn_expression", <<ts, p>>)
self_parse_fn_params_loop(ts, p, x) == Parser("parse_fn_params_loop", <<ts, p, x>>)
self_parse_call_loop(ts, p, x) == Parser("parse_call_loop", <<ts, p, x>>)


parse_let_statement(ts, p) ==
    IF curr_token(ts, p + 1).type # "Ident" THEN ParseErr(p + 1)
    ELSE IF curr_token(ts, p + 2).type # "Assign" THEN ParseErr(p + 2)
    ELSE LET value == self_parse_expression(ts, p + 3, Lowest)
         IN  IF ~value.ok THEN value
             ELSE IF peek_token(ts, value.p).type \notin {"Semicolon", "Eof"}
                  THEN ParseErr(value.p)
             ELSE ParseOk(StmtLet(curr_token(ts, p + 1).s, value.node), value.p + 1)

parse_return_statement(ts, p) ==
    LET value == self_parse_expression(ts, p + 1, Lowest)
    IN  IF ~value.ok THEN value
        ELSE IF peek_token(ts, value.p).type # "Semicolon" THEN ParseErr(value.p)
        ELSE ParseOk(StmtReturn(value.node), value.p + 1)

\* parse_block_statement with a loop that also stops at Eof: an unclosed
\* block would be accepted
parse_block_loop_until_eof(ts, p, statements) ==
    IF curr_token(ts, p).type \in {"RBrace", "Eof"} THEN ParseOk(StmtBlock(statements), p)
    ELSE LET s == self_parse_statement(ts, p)
         IN  IF ~s.ok THEN s
             ELSE self_parse_block_loop(ts, s.p + 1, Append(statements, s.node))

\* the while loop of parse_block_statement; statements is the vector so far
parse_block_loop(ts, p, statements) ==
    IF curr_token(ts, p).type = "RBrace" THEN ParseOk(StmtBlock(statements), p)
    ELSE LET s == self_parse_statement(ts, p)
         IN  IF ~s.ok THEN s
             ELSE self_parse_block_loop(ts, s.p + 1, Append(statements, s.node))

parse_block_statement(ts, p) == self_parse_block_loop(ts, p, <<>>)

parse_expression_statement(ts, p) ==
    LET e == self_parse_expression(ts, p, Lowest)
    IN  IF ~e.ok THEN e
        ELSE IF peek_token(ts, e.p).type = "Semicolon"
             THEN ParseOk(StmtExpr(e.node), e.p + 1)
             ELSE ParseOk(StmtExpr(e.node), e.p)

parse_statement(ts, p) ==
    CASE curr_token(ts, p).type = "Let" -> parse_let_statement(ts, p)
      [] curr_token(ts, p).type = "Return" -> parse_return_statement(ts, p)
      [] curr_token(ts, p).type = "RBrace" -> parse_block_statement(ts, p)
      [] OTHER -> parse_expression_statement(ts, p)

\* the while loop of parse_call_expression
parse_call_loop(ts, p, args) ==
    IF curr_token(ts, p).type = "RParen" THEN ParseOk(args, p)
    ELSE LET a == self_parse_expression(ts, p, Lowest)
         IN  IF ~a.ok THEN a
             ELSE CASE curr_token(ts, a.p + 1).type = "Comma" ->
                         self_parse_call_loop(ts, a.p + 2, Append(args, a.node))
                    [] curr_token(ts, a.p + 1).type = "RParen" ->
                         ParseOk(Append(args, a.node), a.p + 1)
                    [] OTHER -> ParseErr(a.p + 1)

parse_call_expression(ts, p, func) ==
    LET args == self_parse_call_loop(ts, p + 1, <<>>)
    IN  IF ~args.ok THEN args ELSE ParseOk(ExprCall(func, args.node), args.p)

\* parse_infix_expression with the right operand parsed one level lower:
\* operators of equal precedence would group to the right
parse_infix_expression_right_assoc(ts, p, left) ==
    LET operator == InfixOperator_try_from(curr_token(ts, p))
        precedence == IF operator = "Index" THEN Lowest ELSE curr_precedence(ts, p) - 1
        right == self_parse_expression(ts, p + 1, precedence)
    IN  IF operator = "Invalid" THEN ParseErr(p)
        ELSE IF ~right.ok THEN right
        ELSE IF operator = "Index"
             THEN IF peek_token(ts, right.p).type # "RBracket" THEN ParseErr(right.p)
                  ELSE ParseOk(ExprInfix(operator, left, right.node), right.p + 1)
             ELSE ParseOk(ExprInfix(operator, left, right.node), right.p)

\* parse_infix_expression without the special case: the index expression
\* would be parsed at the precedence of `[` like any right operand
parse_infix_expression_index_tight(ts, p, left) ==
    LET operator == InfixOperator_try_from(curr_token(ts, p))
        precedence == curr_precedence(ts, p)
        right == self_parse_expression(ts, p + 1, precedence)
    IN  IF operator = "Invalid" THEN ParseErr(p)
        ELSE IF ~right.ok THEN right
        ELSE IF operator = "Index"
             THEN IF peek_token(ts, right.p).type # "RBracket" THEN ParseErr(right.p)
                  ELSE ParseOk(ExprInfix(operator, left, right.node), right.p + 1)
             ELSE ParseOk(ExprInfix(operator, left, right.node), right.p)

parse_infix_expression(ts, p, left) ==
    LET operator == InfixOperator_try_from(curr_token(ts, p))
        precedence == IF operator = "Index" THEN Lowest ELSE curr_precedence(ts, p)
        right == self_parse_expression(ts, p + 1, precedence)
    IN  IF operator = "Invalid" THEN ParseErr(p)
        ELSE IF ~right.ok THEN right
        ELSE IF operator = "Index"
             THEN IF peek_token(ts, right.p).type # "RBracket" THEN ParseErr(right.p)
                  ELSE ParseOk(ExprInfix(operator, left, right.node), right.p + 1)
             ELSE ParseOk(ExprInfix(operator, left, right.node), right.p)

\* the while loop of parse_expression
parse_expression_loop(ts, p, precedence, left) ==
    IF peek_token(ts, p).type # "Semicolon" /\ precedence < peek_precedence(ts, p)
    THEN LET next == IF curr_token(ts, p + 1).type = "LParen"
                     THEN parse_call_expression(ts, p + 1, left)
                     ELSE self_parse_infix_expression(ts, p + 1, left)
         IN  IF ~next.ok THEN next
             ELSE self_parse_expression_loop(ts, next.p, precedence, next.node)
    ELSE ParseOk(left, p)

parse_expression(ts, p, precedence) ==
    LET left == self_parse_prefix(ts, p)
    IN  IF ~left.ok THEN left
        ELSE self_parse_expression_loop(ts, left.p, precedence, left.node)

parse_prefix_expression(ts, p) ==
    LET operator == PrefixOperator_try_from(curr_token(ts, p))
        right == self_parse_expression(ts, p + 1, Prefix)
    IN  IF operator = "Invalid" THEN ParseErr(p)
        ELSE IF ~right.ok THEN right
        ELSE ParseOk(ExprPrefix(operator, right.node), right.p)

\* an Err in exp is returned after the assert on the peek token, or the
\* assert fails first: an error either way
parse_grouped_expression(ts, p) ==
    LET exp == self_parse_expression(ts, p + 1, Lowest)
    IN  IF ~exp.ok THEN exp
        ELSE IF peek_token(ts, exp.p).type # "RParen" THEN ParseErr(exp.p)
        ELSE ParseOk(exp.node, exp.p + 1)

\* the while loop of parse_array_expression
parse_array_loop(ts, p, content) ==
    IF curr_token(ts, p).type = "RBracket" THEN ParseOk(content, p)
    ELSE LET e == self_parse_expression(ts, p, Lowest)
         IN  IF ~e.ok THEN e
             ELSE CASE curr_token(ts, e.p + 1).type = "Comma" ->
                         self_parse_array_loop(ts, e.p + 2, Append(content, e.node))
                    [] curr_token(ts, e.p + 1).type = "RBracket" ->
                         ParseOk(Append(content, e.node), e.p + 1)
                    [] OTHER -> ParseErr(e.p + 1)

parse_array_expression(ts, p) ==
    LET content == self_parse_array_loop(ts, p + 1, <<>>)
    IN  IF ~content.ok THEN content ELSE ParseOk(ExprArray(content.node), content.p)

\* the while loop of parse_hash_expression
parse_hash_loop(ts, p, content) ==
    IF curr_token(ts, p).type = "RBrace" THEN ParseOk(content, p)
    ELSE LET left == self_parse_expression(ts, p, Lowest)
         IN  IF ~left.ok THEN left
             ELSE IF curr_token(ts, left.p + 1).type # "Colon" THEN ParseErr(left.p + 1)
             ELSE LET right == self_parse_expression(ts, left.p + 2, Lowest)
                      pair == <<left.node, right.node>>
                  IN  IF ~right.ok THEN right
                      ELSE CASE curr_token(ts, right.p + 1).type = "Comma" ->
                                  self_parse_hash_loop(ts, right.p + 2, Append(content, pair))
                             [] curr_token(ts, right.p + 1).type = "RBrace" ->
                                  ParseOk(Append(content, pair), right.p + 1)
                             [] OTHER -> ParseErr(right.p + 1)

parse_hash_expression(ts, p) ==
    LET content == self_parse_hash_loop(ts, p + 1, <<>>)
    IN  IF ~content.ok THEN content ELSE ParseOk(ExprHash(content.node), content.p)

parse_if_expression(ts, p) ==
    IF curr_token(ts, p + 1).type # "LParen" THEN ParseErr(p + 1)
    ELSE LET cond == self_parse_expression(ts, p + 2, Lowest)
         IN  IF ~cond.ok THEN cond
             ELSE IF curr_token(ts, cond.p + 1).type # "RParen" THEN ParseErr(cond.p + 1)
             ELSE IF curr_token(ts, cond.p + 2).type # "LBrace" THEN ParseErr(cond.p + 2)
             ELSE LET then_ == parse_block_statement(ts, cond.p + 3)
                  IN  IF ~then_.ok THEN then_
                      ELSE IF peek_token(ts, then_.p).type = "Else"
                      THEN IF curr_token(ts, then_.p + 2).type # "LBrace"
                           THEN ParseErr(then_.p + 2)
                           ELSE LET else_ == parse_block_statement(ts, then_.p + 3)
                                IN  IF ~else_.ok THEN else_
                                    ELSE ParseOk(ExprCond(cond.node, then_.node.stmts,
                                                          <<else_.node.stmts>>), else_.p)
                      ELSE ParseOk(ExprCond(cond.node, then_.node.stmts, <<>>), then_.p)

\* the while loop of parse_fn_expression
parse_fn_params_loop(ts, p, args) ==
    IF curr_token(ts, p).type = "RParen" THEN ParseOk(args, p)
    ELSE IF curr_token(ts, p).type # "Ident" THEN ParseErr(p)
    ELSE CASE curr_token(ts, p + 1).type = "Comma" ->
                self_parse_fn_params_loop(ts, p + 2, Append(args, curr_token(ts, p).s))
           [] curr_token(ts, p + 1).type = "RParen" ->
                ParseOk(Append(args, curr_token(ts, p).s), p + 1)
           [] OTHER -> ParseErr(p + 1)

parse_fn_expression(ts, p) ==
    IF curr_token(ts, p + 1).type # "LParen" THEN ParseErr(p + 1)
    ELSE LET args == self_parse_fn_params_loop(ts, p + 2, <<>>)
         IN  IF ~args.ok THEN args
             ELSE IF curr_token(ts, args.p + 1).type # "LBrace" THEN ParseErr(args.p + 1)
             ELSE LET body == parse_block_statement(ts, args.p + 2)
                  IN  IF ~body.ok THEN body
                      ELSE ParseOk(ExprFunc(args.node, body.node.stmts), body.p)

parse_prefix(ts, p) ==
    LET tok == curr_token(ts, p)
    IN  CASE tok.type \in {"Bang", "Minus"} -> parse_prefix_expression(ts, p)
          [] tok.type = "Ident" -> ParseOk(ExprIdent(tok.s), p)
          [] tok.type = "Int" -> ParseOk(ExprInt(tok.i), p)
          [] tok.type = "String" -> ParseOk(ExprString(tok.str), p)
          [] tok.type = "True" -> ParseOk(ExprBool(TRUE), p)
          [] tok.type = "False" -> ParseOk(ExprBool(FALSE), p)
          [] tok.type = "LParen" -> parse_grouped_expression(ts, p)
          [] tok.type = "If" -> self_parse_if_expression(ts, p)
          [] tok.type = "Function" -> self_parse_fn_expression(ts, p)
          [] tok.type = "LBracket" -> parse_array_expression(ts, p)
          [] tok.type = "LBrace" -> parse_hash_expression(ts, p)
          [] OTHER -> ParseErr(p)

\* the parser function f applied to the arguments a
Parser(f, a) ==
    CASE f = "parse_statement" -> parse_statement(a[1], a[2])
      [] f = "parse_block_loop" -> parse_block_loop(a[1], a[2], a[3])
      [] f = "parse_expression" -> parse_expression(a[1], a[2], a[3])
      [] f = "parse_expression_loop" -> parse_expression_loop(a[1], a[2], a[3], a[4])
      [] f = "parse_prefix" -> parse_prefix(a[1], a[2])
      [] f = "parse_infix_expression" -> parse_infix_expression(a[1], a[2], a[3])
      [] f = "parse_array_loop" -> parse_array_loop(a[1], a[2], a[3])
      [] f = "parse_hash_loop" -> parse_hash_loop(a[1], a[2], a[3])
      [] f = "parse_if_expression" -> parse_if_expression(a[1], a[2])
      [] f = "parse_fn_expression" -> parse_fn_expression(a[1], a[2])
      [] f = "parse_fn_params_loop" -> parse_fn_params_loop(a[1], a[2], a[3])
      [] f = "parse_call_loop" -> parse_call_loop(a[1], a[2], a[3])

\* the while loop of parse_program
RECURSIVE parse_program_loop(_, _, _)
parse_program_loop(ts, p, statements) ==
    IF curr_token(ts, p).type = "Eof" THEN [ok |-> TRUE, statements |-> statements]
    ELSE LET s == self_parse_statement(ts, p)
         IN  IF ~s.ok THEN [ok |-> FALSE]
             ELSE parse_program_loop(ts, s.p + 1, Append(statements, s.node))

\* Parser::init(input).parse_program(): the parser starts on the first token
parse_program(ts) == parse_program_loop(ts, 1, <<>>)

(***************************************************************************)
(* Runtime values (eval/object.rs).  A Function holds the handle of its    *)
(* environment; a Hash is a function from HashMapKey to Object.            *)
(***************************************************************************)
Null == [kind |-> "Null"]
ObjInt(value) == [kind |-> "Int", i |-> value]
ObjBool(value) == [kind |-> "Bool", b |-> value]
ObjString(chars) == [kind |-> "String", str |-> chars]
ObjReturn(o) == [kind |-> "Return", obj |-> o]
ObjFunction(params, stmts, env) ==
    [kind |-> "Function", parameters |-> params, body |-> stmts, environment |-> env]
ObjBuiltin(f) == [kind |-> "Builtin", fn |-> f]
ObjArray(content) == [kind |-> "Array", elems |-> content]
ObjHash(m) == [kind |-> "Hash", map |-> m]

KeyInt(value) == [key |-> "Int", i |-> value]
KeyBool(value) == [key |-> "Bool", b |-> value]
KeyString(chars) == [key |-> "String", str |-> chars]

\* a truthiness that takes only positive integers for true
RECURSIVE to_bool_positive(_)
to_bool_positive(o) ==
    CASE o.kind = "Bool" -> o.b
      [] o.kind = "Int" -> o.i > 0
      [] o.kind = "String" -> o.str # <<>>
      [] o.kind = "Null" -> FALSE
      [] o.kind = "Return" -> to_bool_positive(o.obj)
      [] o.kind = "Function" -> TRUE
      [] o.kind = "Builtin" -> TRUE
      [] o.kind = "Array" -> o.elems # <<>>
      [] o.kind = "Hash" -> DOMAIN o.map # {}

RECURSIVE to_bool(_)
to_bool(o) ==
    CASE o.kind = "Bool" -> o.b
      [] o.kind = "Int" -> o.i # 0
      [] o.kind = "String" -> o.str # <<>>
      [] o.kind = "Null" -> FALSE
      [] o.kind = "Return" -> to_bool(o.obj)
      [] o.kind = "Function" -> TRUE
      [] o.kind = "Builtin" -> TRUE
      [] o.kind = "Array" -> o.elems # <<>>
      [] o.kind = "Hash" -> DOMAIN o.map # {}

(***************************************************************************)
(* Environments (eval/environment.rs).  The heap is the sequence of all    *)
(* frames allocated so far; an Environment handle (Rc<Environment>, or an  *)
(* Environment value that shares its variables cell) is the index of its   *)
(* frame.  outer = 0 is None.                                              *)
(***************************************************************************)
NoVariables == [name \in {} |-> Null]
Environment_default == [variables |-> NoVariables, outer |-> 0]
init_with_outer(outer) == [variables |-> NoVariables, outer |-> outer]

\* a lookup that asks the outer frames first
RECURSIVE get_outermost(_, _, _)
get_outermost(heap, env, var_name) ==
    LET outer == IF heap[env].outer # 0
                 THEN get_outermost(heap, heap[env].outer, var_name) ELSE Null
        bound_outside == heap[env].outer # 0 /\ outer # Null
    IN  IF bound_outside THEN outer
        ELSE IF var_name \in DOMAIN heap[env].variables
             THEN heap[env].variables[var_name]
        ELSE Null

RECURSIVE get(_, _, _)
get(heap, env, var_name) ==
    IF var_name \in DOMAIN heap[env].variables THEN heap[env].variables[var_name]
    ELSE IF heap[env].outer # 0 THEN get(heap, heap[env].outer, var_name)
    ELSE Null

\* the heap after env.set(var_name, obj); the object it returns is obj
set(heap, env, var_name, obj) ==
    [heap EXCEPT ![env].variables =
        [name \in DOMAIN heap[env].variables \cup {var_name} |->
            IF name = var_name THEN obj ELSE heap[env].variables[name]]]

(***************************************************************************)
(* Results.  A pure operation returns [res, obj]; res is "Ok", "Err" (the  *)
(* Err of anyhow's bail!) or "Panic" (the process aborts).  An evaluation  *)
(* returns [res, obj, mem]: mem is the memory it leaves behind, the heap   *)
(* of frames, the record of the user-function calls made so far and the    *)
(* number of calls of user functions that are on the native stack.         *)
(***************************************************************************)
Ok(o) == [res |-> "Ok", obj |-> o]
Err == [res |-> "Err", obj |-> Null]
Panic == [res |-> "Panic", obj |-> Null]

EvOk(o, mem) == [res |-> "Ok", obj |-> o, mem |-> mem]
EvFail(r, mem) == [res |-> r.res, obj |-> Null, mem |-> mem]
Lift(r, mem) == [res |-> r.res, obj |-> r.obj, mem |-> mem]

(***************************************************************************)
(* Builtin functions (eval/builtin.rs).                                    *)
(***************************************************************************)
\* usize -> i64 conversion of a length
LenToInt(n) == ObjInt(n)

RestOf(seq) == SubSeq(seq, 2, Len(seq))

call_len(args) ==
    IF Len(args) # 1 THEN Err
    ELSE CASE args[1].kind = "String" -> Ok(LenToInt(Len(args[1].str)))
           [] args[1].kind = "Array" -> Ok(LenToInt(Len(args[1].elems)))
           [] args[1].kind = "Hash" -> Ok(LenToInt(Cardinality(DOMAIN args[1].map)))
           [] OTHER -> Err

call_first(args) ==
    IF Len(args) # 1 THEN Err
    ELSE CASE args[1].kind = "String" /\ args[1].str = <<>> -> Ok(Null)
           [] args[1].kind = "String" /\ args[1].str # <<>> ->
                Ok(ObjString(<<Head(args[1].str)>>))
           [] args[1].kind = "Array" /\ args[1].elems = <<>> -> Ok(Null)
           [] args[1].kind = "Array" /\ args[1].elems # <<>> -> Ok(Head(args[1].elems))
           [] OTHER -> Err

call_last(args) ==
    IF Len(args) # 1 THEN Err
    ELSE CASE args[1].kind = "String" /\ args[1].str = <<>> -> Ok(Null)
           [] args[1].kind = "String" /\ args[1].str # <<>> ->
                Ok(ObjString(<<args[1].str[Len(args[1].str)]>>))
           [] args[1].kind = "Array" /\ args[1].elems = <<>> -> Ok(Null)
           [] args[1].kind = "Array" /\ args[1].elems # <<>> ->
                Ok(args[1].elems[Len(args[1].elems)])
           [] OTHER -> Err

call_rest(args) ==
    IF Len(args) # 1 THEN Err
    ELSE CASE args[1].kind = "String" /\ args[1].str = <<>> -> Ok(Null)
           [] args[1].kind = "String" /\ Len(args[1].str) = 1 -> Ok(ObjString(<<>>))
           [] args[1].kind = "String" /\ Len(args[1].str) > 1 ->
                Ok(ObjString(RestOf(args[1].str)))
           [] args[1].kind = "Array" /\ args[1].elems = <<>> -> Ok(Null)
           [] args[1].kind = "Array" /\ Len(args[1].elems) = 1 -> Ok(ObjArray(<<>>))
           [] args[1].kind = "Array" /\ Len(args[1].elems) > 1 ->
                Ok(ObjArray(RestOf(args[1].elems)))
           [] OTHER -> Err

\* the HashMapKey of an Int, String or Bool object
HashKeyOf(o) ==
    CASE o.kind = "Int" -> KeyInt(o.i)
      [] o.kind = "String" -> KeyString(o.str)
      [] o.kind = "Bool" -> KeyBool(o.b)

IsHashable(o) == o.kind \in {"Int", "String", "Bool"}

\* HashMap::insert(key, value) on a clone of map
HashInsert(map, key, value) ==
    [k \in DOMAIN map \cup {key} |-> IF k = key THEN value ELSE map[k]]

\* inserting every entry of map2 into a clone of map1
HashMerge(map1, map2) ==
    [k \in DOMAIN map1 \cup DOMAIN map2 |-> IF k \in DOMAIN map2 THEN map2[k] ELSE map1[k]]

\* a push that puts the new element in front of the others
call_push_front(args) ==
    IF Len(args) < 2 THEN Err
    ELSE LET arg1 == args[1]
             arg2 == args[2]
         IN  CASE arg1.kind = "String" ->
                    IF arg2.kind = "String" THEN Ok(ObjString(arg1.str \o arg2.str))
                    ELSE Err
               [] arg1.kind = "Array" -> Ok(ObjArray(<<arg2>> \o arg1.elems))
               [] arg1.kind = "Hash" ->
                    CASE arg2.kind = "Array" /\ Len(arg2.elems) = 2 ->
                           IF IsHashable(arg2.elems[1])
                           THEN Ok(ObjHash(HashInsert(arg1.map, HashKeyOf(arg2.elems[1]),
                                                      arg2.elems[2])))
                           ELSE Err
                      [] arg2.kind = "Array" /\ Len(arg2.elems) # 2 -> Err
                      [] arg2.kind = "Hash" -> Ok(ObjHash(HashMerge(arg1.map, arg2.map)))
                      [] OTHER -> Err
               [] OTHER -> Err

call_push(args) ==
    IF Len(args) < 2 THEN Err
    ELSE LET arg1 == args[1]
             arg2 == args[2]
         IN  CASE arg1.kind = "String" ->
                    IF arg2.kind = "String" THEN Ok(ObjString(arg1.str \o arg2.str))
                    ELSE Err
               [] arg1.kind = "Array" -> Ok(ObjArray(Append(arg1.elems, arg2)))
               [] arg1.kind = "Hash" ->
                    CASE arg2.kind = "Array" /\ Len(arg2.elems) = 2 ->
                           IF IsHashable(arg2.elems[1])
                           THEN Ok(ObjHash(HashInsert(arg1.map, HashKeyOf(arg2.elems[1]),
                                                      arg2.elems[2])))
                           ELSE Err
                      [] arg2.kind = "Array" /\ Len(arg2.elems) # 2 -> Err
                      [] arg2.kind = "Hash" -> Ok(ObjHash(HashMerge(arg1.map, arg2.map)))
                      [] OTHER -> Err
               [] OTHER -> Err

BuiltinFunction_call(f, args) ==
    CASE f = "Len" -> call_len(args)
      [] f = "First" -> call_first(args)
      [] f = "Last" -> call_last(args)
      [] f = "Rest" -> call_rest(args)
      [] f = "Push" -> call_push(args)

(***************************************************************************)
(* Prefix and infix operators (eval/mod.rs, impl Expression).              *)
(***************************************************************************)
\* the outcome of an i64 +, -, * or negation whose exact result is v: on
\* overflow a panic where the build checks it, the wrapped value where not
i64_arith(v) ==
    IF i64_MIN <= v /\ v <= i64_MAX THEN Ok(ObjInt(v))
    ELSE IF overflow_checks THEN Panic
    ELSE Ok(ObjInt(wrapping(v)))

RECURSIVE eval_neg(_)
eval_neg(right) ==
    CASE right.kind = "Int" -> i64_arith(-right.i)
      [] right.kind = "Return" -> eval_neg(right.obj)
      [] OTHER -> Err

eval_prefix(operator, right) ==
    CASE operator = "Neg" -> eval_neg(right)
      [] operator = "Not" -> Ok(ObjBool(~to_bool(right)))

\* Rust's l / r on integers, r # 0: the quotient truncated toward zero
TruncDiv(l, r) ==
    LET al == IF l < 0 THEN -l ELSE l
        ar == IF r < 0 THEN -r ELSE r
    IN  IF (l < 0) = (r < 0) THEN al \div ar ELSE -(al \div ar)

\* an eval_infix that also compares strings
eval_infix_string_eq(operator, left, right) ==
    CASE left.kind = "Null" /\ right.kind = "Null" -> Ok(Null)
      [] left.kind = "Bool" /\ right.kind = "Bool" /\ operator = "Eq" ->
           Ok(ObjBool(left.b = right.b))
      [] left.kind = "Bool" /\ right.kind = "Bool" /\ operator = "NotEq" ->
           Ok(ObjBool(left.b # right.b))
      [] left.kind = "Int" /\ right.kind = "Int" /\ operator = "Add" ->
           i64_arith(left.i + right.i)
      [] left.kind = "Int" /\ right.kind = "Int" /\ operator = "Sub" ->
           i64_arith(left.i - right.i)
      [] left.kind = "Int" /\ right.kind = "Int" /\ operator = "Mul" ->
           i64_arith(left.i * right.i)
      [] left.kind = "Int" /\ right.kind = "Int" /\ operator = "Div" ->
           \* l / r panics on a zero divisor and on i64::MIN / -1 in every build
           IF right.i = 0 THEN Panic
           ELSE IF left.i = i64_MIN /\ right.i = -1 THEN Panic
           ELSE Ok(ObjInt(TruncDiv(left.i, right.i)))
      [] left.kind = "Int" /\ right.kind = "Int" /\ operator = "Eq" ->
           Ok(ObjBool(left.i = right.i))
      [] left.kind = "Int" /\ right.kind = "Int" /\ operator = "NotEq" ->
           Ok(ObjBool(left.i # right.i))
      [] left.kind = "Int" /\ right.kind = "Int" /\ operator = "Gt" ->
           Ok(ObjBool(left.i > right.i))
      [] left.kind = "Int" /\ right.kind = "Int" /\ operator = "Lt" ->
           Ok(ObjBool(left.i < right.i))
      [] left.kind = "String" /\ right.kind = "String" /\ operator = "Add" ->
           Ok(ObjString(left.str \o right.str))
      [] left.kind = "String" /\ right.kind = "String" /\ operator = "Eq" ->
           Ok(ObjBool(left.str = right.str))
      [] left.kind = "Array" /\ right.kind = "Int" /\ operator = "Index" ->
           IF right.i < 0 \/ right.i >= Len(left.elems) THEN Ok(Null)
           ELSE Ok(left.elems[right.i + 1])
      [] left.kind = "Hash" /\ operator = "Index" ->
           IF ~IsHashable(right) THEN Err
           ELSE IF HashKeyOf(right) \in DOMAIN left.map
                THEN Ok(left.map[HashKeyOf(right)])
                ELSE Ok(Null)
      [] OTHER -> Err

eval_infix(operator, left, right) ==
    CASE left.kind = "Null" /\ right.kind = "Null" -> Ok(Null)
      [] left.kind = "Bool" /\ right.kind = "Bool" /\ operator = "Eq" ->
           Ok(ObjBool(left.b = right.b))
      [] left.kind = "Bool" /\ right.kind = "Bool" /\ operator = "NotEq" ->
           Ok(ObjBool(left.b # right.b))
      [] left.kind = "Int" /\ right.kind = "Int" /\ operator = "Add" ->
           i64_arith(left.i + right.i)
      [] left.kind = "Int" /\ right.kind = "Int" /\ operator = "Sub" ->
           i64_arith(left.i - right.i)
      [] left.kind = "Int" /\ right.kind = "Int" /\ operator = "Mul" ->
           i64_arith(left.i * right.i)
      [] left.kind = "Int" /\ right.kind = "Int" /\ operator = "Div" ->
           \* l / r panics on a zero divisor and on i64::MIN / -1 in every build
           IF right.i = 0 THEN Panic
           ELSE IF left.i = i64_MIN /\ right.i = -1 THEN Panic
           ELSE Ok(ObjInt(TruncDiv(left.i, right.i)))
      [] left.kind = "Int" /\ right.kind = "Int" /\ operator = "Eq" ->
           Ok(ObjBool(left.i = right.i))
      [] left.kind = "Int" /\ right.kind = "Int" /\ operator = "NotEq" ->
           Ok(ObjBool(left.i # right.i))
      [] left.kind = "Int" /\ right.kind = "Int" /\ operator = "Gt" ->
           Ok(ObjBool(left.i > right.i))
      [] left.kind = "Int" /\ right.kind = "Int" /\ operator = "Lt" ->
           Ok(ObjBool(left.i < right.i))
      [] left.kind = "String" /\ right.kind = "String" /\ operator = "Add" ->
           Ok(ObjString(left.str \o right.str))
      [] left.kind = "Array" /\ right.kind = "Int" /\ operator = "Index" ->
           IF right.i < 0 \/ right.i >= Len(left.elems) THEN Ok(Null)
           ELSE Ok(left.elems[right.i + 1])
      [] left.kind = "Hash" /\ operator = "Index" ->
           IF ~IsHashable(right) THEN Err
           ELSE IF HashKeyOf(right) \in DOMAIN left.map
                THEN Ok(left.map[HashKeyOf(right)])
                ELSE Ok(Null)
      [] OTHER -> Err

(***************************************************************************)
(* The evaluator (eval/mod.rs).  env is the handle of the environment the  *)
(* node is evaluated in.                                                   *)
(***************************************************************************)
\* Expression::eval calls itself for the body of every call and nothing
\* bounds the nesting: the native stack holds the activations of StackFrames
\* nested calls of user functions, and one more call overflows it, which
\* aborts the process
StackFrames == 4

\* the memory with one more frame; its handle is the new length of the heap
Alloc(mem, frame) == [mem EXCEPT !.heap = Append(mem.heap, frame)]

\* a call whose frame continues the scope of the caller
call_frame_of_caller(mem, function, env) ==
    LET m == Alloc(mem, init_with_outer(env))
    IN  [mem |-> m, env |-> Len(m.heap)]

\* a call that binds in the environment the function value holds
call_frame_shared(mem, function, env) ==
    [mem |-> mem, env |-> function.environment]

\* Rc::new(Environment::init_with_outer(Rc::new(environment))): the frame of a
\* call of function made in env; environment is the one the function holds
call_frame(mem, function, env) ==
    LET m == Alloc(mem, init_with_outer(function.environment))
    IN  [mem |-> m, env |-> Len(m.heap)]

\* for (name, val) in parameters.iter().zip(arguments) { func_env.set(name, val) }
RECURSIVE bind_parameters(_, _, _, _, _)
bind_parameters(heap, func_env, parameters, arguments, i) ==
    IF i > Len(parameters) THEN heap
    ELSE bind_parameters(set(heap, func_env, parameters[i], arguments[i]),
                         func_env, parameters, arguments, i + 1)

\* the record of one call of a user function: the function called, the
\* handle of the frame of the call, the number of frames that existed when
\* the call began, those of them that the call changed, the names bound in
\* the frame of the call when its body ended, and what the call yielded
CallRecord(func, frame, pre, body) ==
    [func |-> func, frame |-> frame, base |-> Len(pre),
     changed |-> {i \in 1..Len(pre) : body.mem.heap[i] # pre[i]},
     names |-> DOMAIN body.mem.heap[frame].variables,
     res |-> body.res, obj |-> body.obj]

\* if let Object::Return(obj) = evaluated_func { *obj } else { evaluated_func }
unwrap_return(evaluated_func) ==
    IF evaluated_func.kind = "Return" THEN evaluated_func.obj ELSE evaluated_func

\* statement.eval(env) and expr.eval(env): the calls of the two eval
\* methods, made through Eval
RECURSIVE Eval(_, _, _, _)
Statement_eval(stmt, env, mem) == Eval("Statement", stmt, env, mem)
Expression_eval(expr, env, mem) == Eval("Expression", expr, env, mem)

RECURSIVE EvalBlockLoop(_, _, _, _, _)
RECURSIVE EvalList(_, _, _, _, _)
RECURSIVE EvalHashLoop(_, _, _, _, _)

\* an identifier that asks the environment before the builtin names
EvalIdent_env_first(ident, env, mem) ==
    LET bound == get(mem.heap, env, ident)
    IN  IF bound # Null THEN bound
        ELSE CASE ident = "len" -> ObjBuiltin("Len")
               [] ident = "first" -> ObjBuiltin("First")
               [] ident = "last" -> ObjBuiltin("Last")
               [] ident = "rest" -> ObjBuiltin("Rest")
               [] ident = "push" -> ObjBuiltin("Push")
               [] OTHER -> Null

\* Expression::Ident
EvalIdent(ident, env, mem) ==
    CASE ident = "null" -> Null
      [] ident = "len" -> ObjBuiltin("Len")
      [] ident = "first" -> ObjBuiltin("First")
      [] ident = "last" -> ObjBuiltin("Last")
      [] ident = "rest" -> ObjBuiltin("Rest")
      [] ident = "push" -> ObjBuiltin("Push")
      [] OTHER -> get(mem.heap, env, ident)

\* a function value that holds a copy of the scope it was made in
EvalFunc_snapshot(expr, env, mem) ==
    LET copy == Alloc(mem, mem.heap[env])
        m == Alloc(copy, init_with_outer(Len(copy.heap)))
    IN  EvOk(ObjFunction(expr.args, expr.body, Len(m.heap)), m)

\* Expression::Func: the function value and the memory with its environment
EvalFunc(expr, env, mem) ==
    LET m == Alloc(mem, init_with_outer(env))
    IN  EvOk(ObjFunction(expr.args, expr.body, Len(m.heap)), m)

\* a list evaluation that goes on after a failure and reports it at the end
RECURSIVE EvalList_all(_, _, _, _, _)
EvalList_all(exprs, i, env, acc, mem) ==
    IF i > Len(exprs) THEN EvOk(acc, mem)
    ELSE LET e == Expression_eval(exprs[i], env, mem)
             later == EvalList_all(exprs, i + 1, env, Append(acc, e.obj), e.mem)
         IN  IF e.res # "Ok" THEN [e EXCEPT !.mem = later.mem] ELSE later

\* exprs.map(|e| e.eval(env)).collect::<Result<Vec<Object>>>(): the
\* elements from the i-th on, in order, up to the first failure
EvalList(exprs, i, env, acc, mem) ==
    IF i > Len(exprs) THEN EvOk(acc, mem)
    ELSE LET e == Expression_eval(exprs[i], env, mem)
         IN  IF e.res # "Ok" THEN e
             ELSE EvalList(exprs, i + 1, env, Append(acc, e.obj), e.mem)

\* the for loop of Expression::Hash
EvalHashLoop(pairs, i, env, map, mem) ==
    IF i > Len(pairs) THEN EvOk(ObjHash(map), mem)
    ELSE LET key_obj == Expression_eval(pairs[i][1], env, mem)
         IN  IF key_obj.res # "Ok" THEN key_obj
             ELSE LET value == Expression_eval(pairs[i][2], env, key_obj.mem)
                  IN  IF value.res # "Ok" THEN value
                      ELSE IF ~IsHashable(key_obj.obj) THEN EvFail(Err, value.mem)
                      ELSE EvalHashLoop(pairs, i + 1, env,
                                        HashInsert(map, HashKeyOf(key_obj.obj), value.obj),
                                        value.mem)

\* Expression::Call
EvalCall(expr, env, mem) ==
    LET func_to_call == Expression_eval(expr.func, env, mem)
    IN  IF func_to_call.res # "Ok" THEN func_to_call
        ELSE
        LET arguments == EvalList(expr.args, 1, env, <<>>, func_to_call.mem)
            f == func_to_call.obj
        IN  IF arguments.res # "Ok" THEN arguments
            ELSE CASE f.kind = "Function" ->
                   LET cf == call_frame(arguments.mem, f, env)
                       bound == [cf.mem EXCEPT !.heap =
                                    bind_parameters(cf.mem.heap, cf.env, f.parameters,
                                                    arguments.obj, 1)]
                       evaluated_func == Statement_eval(StmtBlock(f.body), cf.env,
                                                        [bound EXCEPT !.depth = @ + 1])
                       yielded == IF evaluated_func.res = "Ok"
                                  THEN [evaluated_func EXCEPT
                                           !.obj = unwrap_return(evaluated_func.obj)]
                                  ELSE evaluated_func
                       rec == CallRecord(f, cf.env, arguments.mem.heap, yielded)
                   IN  IF Len(f.parameters) # Len(arguments.obj)
                       THEN EvFail(Err, cf.mem)
                       ELSE IF arguments.mem.depth >= StackFrames
                       THEN EvFail(Panic, bound)
                       ELSE [yielded EXCEPT !.mem.calls = Append(@, rec),
                                            !.mem.depth = arguments.mem.depth]
                 [] f.kind = "Builtin" ->
                      Lift(BuiltinFunction_call(f.fn, arguments.obj), arguments.mem)
                 [] OTHER -> EvFail(Err, arguments.mem)

\* an if-expression whose blocks get an environment frame of their own
EvalCond_scoped(expr, env, mem) ==
    LET cond == Expression_eval(expr.cond, env, mem)
        m == Alloc(cond.mem, init_with_outer(env))
    IN  IF cond.res # "Ok" THEN cond
        ELSE IF to_bool(cond.obj)
             THEN Statement_eval(StmtBlock(expr.then_), Len(m.heap), m)
        ELSE IF expr.else_ # <<>>
             THEN Statement_eval(StmtBlock(expr.else_[1]), Len(m.heap), m)
        ELSE EvOk(Null, cond.mem)

\* Expression::Cond
EvalCond(expr, env, mem) ==
    LET cond == Expression_eval(expr.cond, env, mem)
    IN  IF cond.res # "Ok" THEN cond
        ELSE IF to_bool(cond.obj)
             THEN Statement_eval(StmtBlock(expr.then_), env, cond.mem)
        ELSE IF expr.else_ # <<>>
             THEN Statement_eval(StmtBlock(expr.else_[1]), env, cond.mem)
        ELSE EvOk(Null, cond.mem)

EvalExpression(expr, env, mem) ==
    CASE expr.ex = "Bool" -> EvOk(ObjBool(expr.b), mem)
      [] expr.ex = "Int" -> EvOk(ObjInt(expr.i), mem)
      [] expr.ex = "String" -> EvOk(ObjString(expr.str), mem)
      [] expr.ex = "Ident" -> EvOk(EvalIdent(expr.s, env, mem), mem)
      [] expr.ex = "Array" ->
           LET content == EvalList(expr.elems, 1, env, <<>>, mem)
           IN  IF content.res # "Ok" THEN content
               ELSE EvOk(ObjArray(content.obj), content.mem)
      [] expr.ex = "Hash" -> EvalHashLoop(expr.pairs, 1, env, NoVariables, mem)
      [] expr.ex = "Prefix" ->
           LET right == Expression_eval(expr.right, env, mem)
           IN  IF right.res # "Ok" THEN right
               ELSE Lift(eval_prefix(expr.operator, right.obj), right.mem)
      [] expr.ex = "Infix" ->
           LET left == Expression_eval(expr.left, env, mem)
           IN  IF left.res # "Ok" THEN left
               ELSE LET right == Expression_eval(expr.right, env, left.mem)
                    IN  IF right.res # "Ok" THEN right
                        ELSE Lift(eval_infix(expr.operator, left.obj, right.obj),
                                  right.mem)
      [] expr.ex = "Cond" -> EvalCond(expr, env, mem)
      [] expr.ex = "Func" -> EvalFunc(expr, env, mem)
      [] expr.ex = "Call" -> EvalCall(expr, env, mem)

\* the for loop of Statement::Block, from the i-th statement on
EvalBlockLoop(stmts, i, env, result, mem) ==
    IF i > Len(stmts) THEN EvOk(result, mem)
    ELSE LET r == Statement_eval(stmts[i], env, mem)
         IN  IF r.res # "Ok" THEN r
             ELSE IF r.obj.kind = "Return" THEN r
             ELSE EvalBlockLoop(stmts, i + 1, env, r.obj, r.mem)

EvalStatement(stmt, env, mem) ==
    CASE stmt.st = "Expr" -> Expression_eval(stmt.expr, env, mem)
      [] stmt.st = "Block" -> EvalBlockLoop(stmt.stmts, 1, env, Null, mem)
      [] stmt.st = "Let" ->
           LET obj == Expression_eval(stmt.value, env, mem)
           IN  IF obj.res # "Ok" THEN obj
               ELSE EvOk(obj.obj,
                         [obj.mem EXCEPT !.heap = set(@, env, stmt.name, obj.obj)])
      [] stmt.st = "Return" ->
           LET value == Expression_eval(stmt.value, env, mem)
           IN  IF value.res # "Ok" THEN value
               ELSE EvOk(ObjReturn(value.obj), value.mem)

\* the eval method of a Statement or of an Expression
Eval(f, node, env, mem) ==
    CASE f = "Statement" -> EvalStatement(node, env, mem)
      [] f = "Expression" -> EvalExpression(node, env, mem)

\* the for loop of impl Eval for Program, from the i-th statement on
RECURSIVE EvalProgramLoop(_, _, _, _, _)
EvalProgramLoop(statements, i, env, result, mem) ==
    IF i > Len(statements) THEN EvOk(result, mem)
    ELSE LET r == Statement_eval(statements[i], env, mem)
         IN  IF r.res # "Ok" THEN r
             ELSE IF r.obj.kind = "Return" THEN EvOk(r.obj.obj, r.mem)
             ELSE EvalProgramLoop(statements, i + 1, env, r.obj, r.mem)

EvalProgram(statements, env, mem) == EvalProgramLoop(statements, 1, env, Null, mem)

\* an interpreter that evaluates each statement as soon as it is parsed
RECURSIVE eval_while_parsing(_, _, _, _, _)
eval_while_parsing(input, p, env, result, mem) ==
    IF curr_token(input, p).type = "Eof" THEN EvOk(result, mem)
    ELSE LET s == self_parse_statement(input, p)
         IN  IF ~s.ok THEN EvFail(Err, mem)
             ELSE LET r == Statement_eval(s.node, env, mem)
                  IN  IF r.res # "Ok" THEN r
                      ELSE IF r.obj.kind = "Return" THEN EvOk(r.obj.obj, r.mem)
                      ELSE eval_while_parsing(input, s.p + 1, env, r.obj, r.mem)

eval_with_env_interleaved(input, env, mem) == eval_while_parsing(input, 1, env, Null, mem)

\* Parser::init(input).parse_program()?.eval(env)
eval_with_env(input, env, mem) ==
    LET program == parse_program(input)
    IN  IF ~program.ok THEN EvFail(Err, mem)
        ELSE EvalProgram(program.statements, env, mem)

(***************************************************************************)
(* Source texts, written as the token sequences the lexer makes of them.   *)
(***************************************************************************)
SrcLet(name, value) == <<tLet, tIdent(name), tAssign>> \o value \o <<tSemicolon>>
SrcReturn(value) == <<tReturn>> \o value \o <<tSemicolon>>
SrcIf(cond, then_) == <<tIf, tLParen>> \o cond \o <<tRParen, tLBrace>> \o then_ \o <<tRBrace>>
SrcIfElse(cond, then_, else_) == SrcIf(cond, then_) \o <<tElse, tLBrace>> \o else_ \o <<tRBrace>>
SrcFn0(body) == <<tFunction, tLParen, tRParen, tLBrace>> \o body \o <<tRBrace>>
SrcFn1(a, body) == <<tFunction, tLParen, tIdent(a), tRParen, tLBrace>> \o body \o <<tRBrace>>
SrcFn2(a, b, body) ==
    <<tFunction, tLParen, tIdent(a), tComma, tIdent(b), tRParen, tLBrace>> \o body \o <<tRBrace>>
SrcCall0(f) == f \o <<tLParen, tRParen>>
SrcCall1(f, a) == f \o <<tLParen>> \o a \o <<tRParen>>
SrcCall2(f, a, b) == f \o <<tLParen>> \o a \o <<tComma>> \o b \o <<tRParen>>
SrcStmt(expr) == expr \o <<tSemicolon>>
SrcInfix(l, op, r) == l \o <<op>> \o r
SrcId(name) == <<tIdent(name)>>
SrcInt(value) == <<tInt(value)>>

SrcTrue == <<tTrue>>
SrcFalse == <<tFalse>>
SrcArray2(a, b) == <<tLBracket>> \o a \o <<tComma>> \o b \o <<tRBracket>>
\* let dead = 1;  -- a statement that no input may reach
SrcDead == SrcLet("dead", SrcInt(1))
\* 1 + true  -- an infix operation that fails
SrcTypeError == SrcInfix(SrcInt(1), tPlus, SrcTrue)

\* return if (true) { return 5; };
InReturnOfReturn == SrcReturn(SrcIf(SrcTrue, SrcReturn(SrcInt(5))))
\* return 10; 9;
InReturnFirst == SrcReturn(SrcInt(10)) \o SrcStmt(SrcInt(9))

\* MaxDepth bounds the depth to which the if-blocks around a return nest
MaxDepth == 2

\* a return inside d if-blocks, each followed in its block by statements:
\*   d = 0:  return 10;
\*   d odd:  if (10 > 1) { <d - 1> let dead = 1; return 1; }
\*   d even: if (1 > 10) { let dead = 1; } else { <d - 1> let dead = 1; return 1; }
RECURSIVE SrcNestedReturn(_)
SrcNestedReturn(d) ==
    IF d = 0 THEN SrcReturn(SrcInt(10))
    ELSE LET then_ == SrcNestedReturn(d - 1) \o SrcDead \o SrcReturn(SrcInt(1))
         IN  IF d % 2 = 1
             THEN SrcIf(SrcInfix(SrcInt(10), tGt, SrcInt(1)), then_)
             ELSE SrcIfElse(SrcInfix(SrcInt(1), tGt, SrcInt(10)), SrcDead, then_)

\* <return inside d if-blocks> let dead = 1;
InNestedProgram(d) == SrcNestedReturn(d) \o SrcDead
\* let nest = fn() { <return inside d if-blocks> let dead = 1; }; nest()
InNestedFunction(d) ==
    SrcLet("nest", SrcFn0(SrcNestedReturn(d) \o SrcDead)) \o SrcCall0(SrcId("nest"))
\* [if (true) { return 10; }]; let dead = 1;
InReturnInArray ==
    SrcStmt(<<tLBracket>> \o SrcIf(SrcTrue, SrcReturn(SrcInt(10))) \o <<tRBracket>>)
    \o SrcDead
NestedInputs == {InNestedProgram(d) : d \in 1..MaxDepth} \cup
                {InNestedFunction(d) : d \in 1..MaxDepth} \cup {InReturnInArray}

\* let identity = fn(x) { return x; let dead = 1; }; let r = identity(5);
\* let after = 7; r
InCallReturns ==
    SrcLet("identity", SrcFn1("x", SrcReturn(SrcId("x")) \o SrcDead))
    \o SrcLet("r", SrcCall1(SrcId("identity"), SrcInt(5)))
    \o SrcLet("after", SrcInt(7)) \o SrcId("r")
\* let twice = fn() { return if (true) { return 5; }; }; twice(); let later = 7;
InCallReturnOfReturn ==
    SrcLet("twice", SrcFn0(InReturnOfReturn)) \o SrcStmt(SrcCall0(SrcId("twice")))
    \o SrcLet("later", SrcInt(7))

\* let newadder = fn(x) { fn(y) { x + y } }; let addtwo = newadder(2);
InClosureDef ==
    SrcLet("newadder", SrcFn1("x", SrcFn1("y", SrcInfix(SrcId("x"), tPlus, SrcId("y")))))
    \o SrcLet("addtwo", SrcCall1(SrcId("newadder"), SrcInt(2)))
\* addtwo(3)
InClosureUse == SrcCall1(SrcId("addtwo"), SrcInt(3))
\* let inner = fn() { loc }; let outerfn = fn(par) { let loc = 5; inner() };
\* outerfn(6)
InCallerScope ==
    SrcLet("inner", SrcFn0(SrcId("loc")))
    \o SrcLet("outerfn", SrcFn1("par", SrcLet("loc", SrcInt(5)) \o SrcCall0(SrcId("inner"))))
    \o SrcCall1(SrcId("outerfn"), SrcInt(6))

\* let sv = 1; let shadow = fn(a) { let sv = 2; let b = 3; a + sv }; shadow(5)
InShadow ==
    SrcLet("sv", SrcInt(1))
    \o SrcLet("shadow", SrcFn1("a", SrcLet("sv", SrcInt(2)) \o SrcLet("b", SrcInt(3))
                                     \o SrcInfix(SrcId("a"), tPlus, SrcId("sv"))))
    \o SrcCall1(SrcId("shadow"), SrcInt(5))
\* let once = fn(c) { if (c) { let t = 1; } t }; once(true); once(false)
InLaterCall ==
    SrcLet("once", SrcFn1("c", SrcIf(SrcId("c"), SrcLet("t", SrcInt(1))) \o SrcId("t")))
    \o SrcStmt(SrcCall1(SrcId("once"), SrcTrue)) \o SrcCall1(SrcId("once"), SrcFalse)

\* let down = fn(k) { if (k == 0) { 0 } else { down(k - 1) } }; down(2)
InRecursive ==
    SrcLet("down", SrcFn1("k",
        SrcIfElse(SrcInfix(SrcId("k"), tEq, SrcInt(0)), SrcInt(0),
                  SrcCall1(SrcId("down"), SrcInfix(SrcId("k"), tMinus, SrcInt(1))))))
    \o SrcCall1(SrcId("down"), SrcInt(2))
\* let cv = 1; let read = fn() { cv }; let cv = 2; read()
InRebind ==
    SrcLet("cv", SrcInt(1)) \o SrcLet("read", SrcFn0(SrcId("cv")))
    \o SrcLet("cv", SrcInt(2)) \o SrcCall0(SrcId("read"))
\* let cv = 7; read()
InRebindLater == SrcLet("cv", SrcInt(7)) \o SrcCall0(SrcId("read"))
\* the input of tests::map_impl, on the array [1, 2]
InMap ==
    LET step == SrcCall2(SrcId("iter"),
                    SrcCall1(SrcId("rest"), SrcId("arrin")),
                    SrcCall2(SrcId("push"), SrcId("accumulated"),
                        SrcCall1(SrcId("f"), SrcCall1(SrcId("first"), SrcId("arrin")))))
        iter == SrcFn2("arrin", "accumulated",
                    SrcIfElse(SrcInfix(SrcCall1(SrcId("len"), SrcId("arrin")), tEq, SrcInt(0)),
                              SrcId("accumulated"), SrcStmt(step)))
        body == SrcLet("iter", iter)
                \o SrcStmt(SrcCall2(SrcId("iter"), SrcId("arr"), <<tLBracket, tRBracket>>))
    IN  SrcLet("map", SrcFn2("arr", "f", body))
        \o SrcLet("ma", SrcArray2(SrcInt(1), SrcInt(2)))
        \o SrcLet("double", SrcFn1("x", SrcInfix(SrcId("x"), tAsterisk, SrcInt(2))))
        \o SrcCall2(SrcId("map"), SrcId("ma"), SrcId("double"))

\* zz
InUnbound == SrcId("zz")
\* sv
InProbe == SrcId("sv")
\* let len = 5;
InLetLen == SrcLet("len", SrcInt(5))
\* let null = 3; fn(first, push) { let rest = 1; let last = 2; len }(5, 6)
InReservedNames ==
    SrcLet("null", SrcInt(3))
    \o SrcCall2(SrcFn2("first", "push", SrcLet("rest", SrcInt(1)) \o SrcLet("last", SrcInt(2))
                                        \o SrcId("len")),
                SrcInt(5), SrcInt(6))
\* len
InProbeLen == SrcId("len")

\* let pa = 1; let = 2;
InParseErrorLet == SrcLet("pa", SrcInt(1)) \o <<tLet, tAssign, tInt(2), tSemicolon>>
\* let pa = 1; (2
InParseErrorGroup == SrcLet("pa", SrcInt(1)) \o <<tLParen, tInt(2)>>
\* let pa = 1; if (true) { let pb = 1;
InParseErrorBlock ==
    SrcLet("pa", SrcInt(1)) \o <<tIf, tLParen, tTrue, tRParen, tLBrace>> \o SrcLet("pb", SrcInt(1))
ParseErrorInputs == {InParseErrorLet, InParseErrorGroup, InParseErrorBlock}

\* let skipped = 1;  -- the statement after a failing one
SrcSkipped == SrcLet("skipped", SrcInt(1))
\* let ra = 1; 1 + true; let skipped = 1;
InFailStatement == SrcLet("ra", SrcInt(1)) \o SrcStmt(SrcTypeError) \o SrcSkipped
\* let ra = 1; if (true) { 1 + true; let skipped = 1; } let skipped = 1;
InFailInBlock ==
    SrcLet("ra", SrcInt(1)) \o SrcIf(SrcTrue, SrcStmt(SrcTypeError) \o SrcSkipped)
    \o SrcSkipped
\* let ra = 1; fn() { 1 + true; let skipped = 1; }(); let skipped = 1;
InFailInCall ==
    SrcLet("ra", SrcInt(1))
    \o SrcStmt(SrcCall0(SrcFn0(SrcStmt(SrcTypeError) \o SrcSkipped))) \o SrcSkipped
\* let ra = 1; fn(x) { let skipped = 1; }(); let skipped = 1;
InFailArity ==
    SrcLet("ra", SrcInt(1)) \o SrcStmt(SrcCall0(SrcFn1("x", SrcSkipped))) \o SrcSkipped
\* let ra = 1; 1 / 0; let skipped = 1;
InFailDivision ==
    SrcLet("ra", SrcInt(1)) \o SrcStmt(SrcInfix(SrcInt(1), tSlash, SrcInt(0)))
    \o SrcSkipped
\* fn(x) { let skipped = 1; }(1, 2)
InArityMany == SrcCall2(SrcFn1("x", SrcSkipped), SrcInt(1), SrcInt(2))
\* len([], [])
InLenTwo == SrcCall2(SrcId("len"), <<tLBracket, tRBracket>>, <<tLBracket, tRBracket>>)
\* push([], 1, 2)
InPushThree ==
    SrcId("push") \o <<tLParen, tLBracket, tRBracket, tComma>> \o SrcInt(1)
    \o <<tComma>> \o SrcInt(2) \o <<tRParen>>
\* the calls with a wrong number of arguments
ArityInputs == {InFailArity, InArityMany, InLenTwo, InPushThree}

RuntimeErrorInputs ==
    {InFailStatement, InFailInBlock, InFailInCall, InFailArity, InFailDivision}

Inputs ==
    {InReturnOfReturn, InReturnFirst, InCallReturns, InCallReturnOfReturn,
     InClosureDef, InClosureUse, InCallerScope, InShadow, InLaterCall,
     InRecursive, InRebind, InRebindLater, InMap, InUnbound, InProbe,
     InLetLen, InProbeLen, InReservedNames}
    \cup ArityInputs
    \cup NestedInputs \cup ParseErrorInputs \cup RuntimeErrorInputs

(***************************************************************************)
(* The read-eval-print loop (main.rs): one root environment, one input     *)
(* evaluated after the other.  MaxInputs bounds the number of lines read.  *)
(***************************************************************************)
MaxInputs == 2

VARIABLES heap, calls, input, result, n, crashed
\* the operation last applied on its own, with its arguments, and its outcome
VARIABLES applied, outcome
vars == <<heap, calls, input, result, n, crashed, applied, outcome, overflow_checks>>
loop_vars == <<heap, calls, input, result, n, crashed>>

\* the handle of the root environment, Rc::new(Environment::default())
Root == 1

Init ==
    /\ heap = <<Environment_default>>
    /\ calls = <<>>
    /\ input = <<>>
    /\ result = [res |-> "None", obj |-> Null]
    /\ n = 0
    /\ crashed = FALSE
    /\ applied = [op |-> "none", args |-> <<>>]
    /\ outcome = [res |-> "None", obj |-> Null]
    /\ overflow_checks \in BOOLEAN

\* a loop that gives every input an environment of its own
ReadEvalPrint_fresh(buf) ==
    /\ ~crashed
    /\ n < MaxInputs
    /\ LET fresh == [heap EXCEPT ![Root] = Environment_default]
           r == eval_with_env(buf, Root, [heap |-> fresh, calls |-> <<>>, depth |-> 0])
       IN  /\ heap' = r.mem.heap
           /\ calls' = r.mem.calls
           /\ result' = [res |-> r.res, obj |-> r.obj]
           /\ crashed' = (r.res = "Panic")
    /\ input' = buf
    /\ n' = n + 1
    /\ UNCHANGED <<applied, outcome, overflow_checks>>

\* one turn of the loop of main: read a line, evaluate it in the root
\* environment, print the outcome
ReadEvalPrint(buf) ==
    /\ ~crashed
    /\ n < MaxInputs
    /\ LET r == eval_with_env(buf, Root, [heap |-> heap, calls |-> <<>>, depth |-> 0])
       IN  /\ heap' = r.mem.heap
           /\ calls' = r.mem.calls
           /\ result' = [res |-> r.res, obj |-> r.obj]
           /\ crashed' = (r.res = "Panic")
    /\ input' = buf
    /\ n' = n + 1
    /\ UNCHANGED <<applied, outcome, overflow_checks>>

Next == \E buf \in Inputs : ReadEvalPrint(buf)

Spec == Init /\ [][Next]_vars

\* nothing has been applied yet: a run applies one operation
Fresh == applied.op = "none"

(***************************************************************************)
(* The same loop on a second set of inputs: programs about recursion, the  *)
(* order of evaluation, Return markers in values, the scope of if-blocks   *)
(* and failures in the middle of an input.                                 *)
(***************************************************************************)
\* let forever = fn() { forever() }; forever()
InUnboundedRecursion ==
    SrcLet("forever", SrcFn0(SrcCall0(SrcId("forever")))) \o SrcCall0(SrcId("forever"))
\* forever
InProbeForever == SrcId("forever")


\* let ord = 0;  -- the number of the last step taken
SrcOrd == SrcLet("ord", SrcInt(0))
\* if (ord == k - 1) { let ord = k; k }  -- the k-th step: it binds only when
\* the steps before it have been taken and it has not
SrcStep(k) ==
    SrcIf(SrcInfix(SrcId("ord"), tEq, SrcInt(k - 1)), SrcLet("ord", SrcInt(k)) \o SrcInt(k))
\* (1 + true)
SrcFails == <<tLParen>> \o SrcTypeError \o <<tRParen>>

\* <step 1> + <step 2>
InOrderInfix == SrcOrd \o SrcInfix(SrcStep(1), tPlus, SrcStep(2))
\* [<step 1>, <step 2>, <step 3>]
InOrderArray ==
    SrcOrd \o <<tLBracket>> \o SrcStep(1) \o <<tComma>> \o SrcStep(2) \o <<tComma>>
    \o SrcStep(3) \o <<tRBracket>>
\* {<step 1>: <step 2>, <step 3>: <step 4>}
InOrderHash ==
    SrcOrd \o <<tLBrace>> \o SrcStep(1) \o <<tColon>> \o SrcStep(2) \o <<tComma>>
    \o SrcStep(3) \o <<tColon>> \o SrcStep(4) \o <<tRBrace>>
\* let two = fn(a, b) { ord }; if (ord == 0) { let ord = 1; two }(<step 2>, <step 3>)
InOrderCall ==
    SrcOrd \o SrcLet("two", SrcFn2("a", "b", SrcId("ord")))
    \o SrcCall2(SrcIf(SrcInfix(SrcId("ord"), tEq, SrcInt(0)),
                      SrcLet("ord", SrcInt(1)) \o SrcId("two")),
                SrcStep(2), SrcStep(3))
\* 5(<step 1>, <step 2>)
InOrderNotCallable == SrcOrd \o SrcCall2(SrcInt(5), SrcStep(1), SrcStep(2))
\* fn(a) { 0 }(<step 1>, <step 2>)
InOrderArity == SrcOrd \o SrcCall2(SrcFn1("a", SrcInt(0)), SrcStep(1), SrcStep(2))
\* [<step 1>, 1 + true, <step 2>]
InStopArray ==
    SrcOrd \o <<tLBracket>> \o SrcStep(1) \o <<tComma>> \o SrcTypeError \o <<tComma>>
    \o SrcStep(2) \o <<tRBracket>>
\* (1 + true) + <step 1>
InStopInfix == SrcOrd \o SrcInfix(SrcFails, tPlus, SrcStep(1))
\* (1 + true)(<step 1>)
InStopCallee == SrcOrd \o SrcCall1(SrcFails, SrcStep(1))
\* len(<step 1>, 1 + true, <step 2>)
InStopArgs ==
    SrcOrd \o SrcId("len") \o <<tLParen>> \o SrcStep(1) \o <<tComma>> \o SrcTypeError
    \o <<tComma>> \o SrcStep(2) \o <<tRParen>>
\* {<step 1>: 1 + true, <step 2>: 2}
InStopHash ==
    SrcOrd \o <<tLBrace>> \o SrcStep(1) \o <<tColon>> \o SrcTypeError \o <<tComma>>
    \o SrcStep(2) \o <<tColon>> \o SrcInt(2) \o <<tRBrace>>
\* {1 + true: <step 1>}
InStopHashKey ==
    SrcOrd \o <<tLBrace>> \o SrcTypeError \o <<tColon>> \o SrcStep(1) \o <<tRBrace>>
OrderInputs ==
    {InOrderInfix, InOrderArray, InOrderHash, InOrderCall, InOrderNotCallable,
     InOrderArity, InStopArray, InStopInfix, InStopCallee, InStopArgs, InStopHash,
     InStopHashKey}

\* if (true) { return 1; }
SrcReturnsInIf == SrcIf(SrcTrue, SrcReturn(SrcInt(1)))
\* let leak = if (true) { return 1; };
InLetReturn == SrcLet("leak", SrcReturnsInIf)
\* fn(p) { 0 }(if (true) { return 1; })
InArgReturn == SrcCall1(SrcFn1("p", SrcInt(0)), SrcReturnsInIf)
\* let elems = [if (true) { return 1; }];
InElemReturn == SrcLet("elems", <<tLBracket>> \o SrcReturnsInIf \o <<tRBracket>>)
ReturnMarkerInputs == {InLetReturn, InArgReturn, InElemReturn}

\* let sc = 1; if (sc == 1) { let sc = 2; let inif = 3; } else { let nottaken = 4; }
InIfScope ==
    SrcLet("sc", SrcInt(1))
    \o SrcIfElse(SrcInfix(SrcId("sc"), tEq, SrcInt(1)),
                 SrcLet("sc", SrcInt(2)) \o SrcLet("inif", SrcInt(3)),
                 SrcLet("nottaken", SrcInt(4)))
\* let scf = fn(c) { if (c) { let local = 5; } else { let other = 6; } local }; scf(true)
InIfScopeCall ==
    SrcLet("scf", SrcFn1("c", SrcIfElse(SrcId("c"), SrcLet("local", SrcInt(5)),
                                        SrcLet("other", SrcInt(6)))
                              \o SrcId("local")))
    \o SrcCall1(SrcId("scf"), SrcTrue)
IfScopeInputs == {InIfScope, InIfScopeCall}

\* let kept = 1; let kept2 = kept + 1; 1 + true; let unreached = 1;
InFailAfterLets ==
    SrcLet("kept", SrcInt(1))
    \o SrcLet("kept2", SrcInfix(SrcId("kept"), tPlus, SrcInt(1)))
    \o SrcStmt(SrcTypeError) \o SrcLet("unreached", SrcInt(1))
\* let kept = 3; 1 / 0; let unreached = 1;
InFailDivisionAfterLet ==
    SrcLet("kept", SrcInt(3)) \o SrcStmt(SrcInfix(SrcInt(1), tSlash, SrcInt(0)))
    \o SrcLet("unreached", SrcInt(1))
\* kept
InProbeKept == SrcId("kept")
FailureInputs == {InFailAfterLets, InFailDivisionAfterLet, InProbeKept}

\* 1, 2, ..., len  -- the elements of an array literal
RECURSIVE SrcElementsTo(_)
SrcElementsTo(len) ==
    IF len = 0 THEN <<>>
    ELSE IF len = 1 THEN SrcInt(1)
    ELSE SrcElementsTo(len - 1) \o <<tComma>> \o SrcInt(len)
\* the recursion of tests::reduce_impl on the array [1, ..., len]: its
\* function iter with the reducer f(result, el) written in place as result op el
\*   let iter = fn(arrin, result) {
\*       if (len(arrin) == 0) { result } else { iter(rest(arrin), result op first(arrin)); } };
\*   iter([1, ..., len], 0)
InReduceOf(len, op) ==
    LET step == SrcCall2(SrcId("iter"),
                    SrcCall1(SrcId("rest"), SrcId("arrin")),
                    SrcInfix(SrcId("result"), op, SrcCall1(SrcId("first"), SrcId("arrin"))))
        iter == SrcFn2("arrin", "result",
                    SrcIfElse(SrcInfix(SrcCall1(SrcId("len"), SrcId("arrin")), tEq, SrcInt(0)),
                              SrcId("result"), SrcStmt(step)))
    IN  SrcLet("iter", iter)
        \o SrcCall2(SrcId("iter"), <<tLBracket>> \o SrcElementsTo(len) \o <<tRBracket>>,
                    SrcInt(0))
\* the lengths of the arrays the recursion is applied to, and the operators
\* of the reducer
ReduceLengths == 0..StackFrames
ReduceOperators == {tAsterisk, tPlus}
ReduceInputs == {InReduceOf(len, op) : len \in ReduceLengths, op \in ReduceOperators}

SessionInputs ==
    {InUnboundedRecursion, InProbeForever}
        \cup OrderInputs \cup ReturnMarkerInputs \cup IfScopeInputs \cup FailureInputs

NextSession == \E buf \in SessionInputs : ReadEvalPrint(buf)

SpecSession == Init /\ [][NextSession]_vars

\* the loop on the inputs that reduce an array by recursion on its rest
NextReduce == \E buf \in ReduceInputs : ReadEvalPrint(buf)

SpecReduce == Init /\ [][NextReduce]_vars

(***************************************************************************)
(* Operations on runtime values on their own: the truthiness of a value    *)
(* (through `!x`, `!!x` and if-expressions evaluated with x bound to the   *)
(* value), eval_infix on every pair of values, and the array builtins.     *)
(* MaxArray bounds the length of the arrays.                               *)
(***************************************************************************)
MaxArray == 3

Objects ==
    {Null, ObjBool(TRUE), ObjBool(FALSE), ObjInt(-1), ObjInt(0), ObjInt(1),
     ObjString(<<>>), ObjString(<<"a">>), ObjArray(<<>>), ObjArray(<<ObjInt(0)>>),
     ObjHash(NoVariables), ObjHash([k \in {KeyInt(0)} |-> Null]),
     ObjFunction(<<>>, <<>>, 1), ObjBuiltin("Len")}
Values == Objects \cup {ObjReturn(o) : o \in Objects} \cup {ObjReturn(ObjReturn(Null))}
InfixOperators == {"Add", "Sub", "Mul", "Div", "Eq", "NotEq", "Gt", "Lt", "Index"}
Elements == {Null, ObjInt(0), ObjInt(1)}
Arrays == {ObjArray(content) : content \in UNION {[1..k -> Elements] : k \in 0..MaxArray}}

\* the memory of a root environment that binds the names of bindings
BoundMemory(bindings) ==
    [heap |-> <<[variables |-> bindings, outer |-> 0]>>, calls |-> <<>>, depth |-> 0]
\* what the evaluation of a source text leaves: the result and the names
\* bound in the root environment
Run(text, bindings) ==
    LET r == eval_with_env(text, 1, BoundMemory(bindings))
    IN  [res |-> r.res, obj |-> r.obj, names |-> DOMAIN r.mem.heap[1].variables,
         variables |-> r.mem.heap[1].variables]

\* !x
SrcNot == <<tBang, tIdent("x")>>
\* !!x
SrcNotNot == <<tBang, tBang, tIdent("x")>>
\* if (x) { let taken = 1; 1 } else { let other = 1; 2 }
SrcCondElse ==
    SrcIfElse(SrcId("x"), SrcLet("taken", SrcInt(1)) \o SrcInt(1),
              SrcLet("other", SrcInt(1)) \o SrcInt(2))
\* if (x) { let taken = 1; 1 }
SrcCond == SrcIf(SrcId("x"), SrcLet("taken", SrcInt(1)) \o SrcInt(1))

\* the places where the truthiness of x decides the result
TruthinessSources ==
    [not |-> SrcNot, notnot |-> SrcNotNot, cond_else |-> SrcCondElse, cond |-> SrcCond]

ApplyTruthiness(x) ==
    /\ applied' = [op |-> "to_bool", args |-> <<x>>]
    /\ outcome' = [to_bool |-> to_bool(x)] @@
                  [use \in DOMAIN TruthinessSources |->
                      Run(TruthinessSources[use], [name \in {"x"} |-> x])]
    /\ UNCHANGED <<loop_vars, overflow_checks>>

ApplyInfixObjects(operator, l, r) ==
    /\ applied' = [op |-> "eval_infix", args |-> <<operator, l, r>>]
    /\ outcome' = eval_infix(operator, l, r)
    /\ UNCHANGED <<loop_vars, overflow_checks>>

\* push applied to every element of elems in order, from the i-th on
RECURSIVE PushAll(_, _, _)
PushAll(acc, elems, i) ==
    IF i > Len(elems) THEN acc
    ELSE PushAll(BuiltinFunction_call("Push", <<acc, elems[i]>>).obj, elems, i + 1)

\* push(arr, x); arr
SrcPushThenRead ==
    SrcStmt(SrcCall2(SrcId("push"), SrcId("arr"), SrcId("x"))) \o SrcId("arr")

ApplyPush(arr, x) ==
    /\ applied' = [op |-> "push", args |-> <<arr, x>>]
    /\ LET pushed == BuiltinFunction_call("Push", <<arr, x>>)
           built == PushAll(ObjArray(<<x>>), arr.elems, 1)
       IN  outcome' = [pushed |-> pushed,
                       len |-> BuiltinFunction_call("Len", <<pushed.obj>>),
                       last |-> BuiltinFunction_call("Last", <<pushed.obj>>),
                       first_built |-> BuiltinFunction_call("First", <<built>>),
                       rest_built |-> BuiltinFunction_call("Rest", <<built>>),
                       first |-> BuiltinFunction_call("First", <<arr>>),
                       rest |-> BuiltinFunction_call("Rest", <<arr>>),
                       last_arr |-> BuiltinFunction_call("Last", <<arr>>),
                       len_arr |-> BuiltinFunction_call("Len", <<arr>>),
                       after |-> Run(SrcPushThenRead,
                                     [name \in {"arr", "x"} |->
                                         IF name = "arr" THEN arr ELSE x])]
    /\ UNCHANGED <<loop_vars, overflow_checks>>

NextObjects ==
    /\ Fresh
    /\ \/ \E x \in Values : ApplyTruthiness(x)
       \/ \E operator \in InfixOperators : \E l \in Values, r \in Values :
              ApplyInfixObjects(operator, l, r)
       \/ \E arr \in Arrays, x \in Elements : ApplyPush(arr, x)

SpecObjects == Init /\ [][NextObjects]_vars

(***************************************************************************)
(* The integer operators on their own: eval_infix and eval_prefix applied  *)
(* to every pair of Int values.                                            *)
(***************************************************************************)
i64 == i64_MIN..i64_MAX
ArithmeticOperators == {"Add", "Sub", "Mul", "Div"}

ApplyInfix(operator, l, r) ==
    /\ applied' = [op |-> operator, args |-> <<l, r>>]
    /\ outcome' = eval_infix(operator, ObjInt(l), ObjInt(r))
    /\ UNCHANGED <<loop_vars, overflow_checks>>

ApplyPrefix(operator, r) ==
    /\ applied' = [op |-> operator, args |-> <<r>>]
    /\ outcome' = eval_prefix(operator, ObjInt(r))
    /\ UNCHANGED <<loop_vars, overflow_checks>>

NextArithmetic ==
    /\ Fresh
    /\ \/ \E operator \in ArithmeticOperators : \E l \in i64, r \in i64 :
              ApplyInfix(operator, l, r)
       \/ \E r \in i64 : ApplyPrefix("Neg", r)

SpecArithmetic == Init /\ [][NextArithmetic]_vars

(***************************************************************************)
(* The lexer on its own: a Lexer is made of a text and next_token is       *)
(* called on it again and again, also after the text is used up.  MaxText  *)
(* bounds the length of the text and MaxCalls the number of calls.         *)
(***************************************************************************)
MaxText == 3
MaxCalls == 5
Alphabet == {"a", "i", "f", "A", "1", "9", " ", "=", "\"", "@", "superscript_two"}
Texts == UNION {[1..k -> Alphabet] : k \in 0..MaxText}

\* Lexer::init(text)
LexerInit(text) ==
    /\ applied' = [op |-> "Lexer", args |-> text, pos |-> Lexer_init(text), calls |-> 0]
    /\ outcome' = [res |-> "Ok", tokens |-> <<>>, start |-> 0]
    /\ UNCHANGED <<loop_vars, overflow_checks>>

\* one call of next_token; start is the place where its token begins
NextToken ==
    /\ applied.op = "Lexer"
    /\ outcome.res = "Ok"
    /\ applied.calls < MaxCalls
    /\ LET t == next_token(applied.args, applied.pos)
       IN  /\ applied' = [applied EXCEPT !.pos = t.pos, !.calls = @ + 1]
           /\ outcome' = [res |-> t.res,
                          tokens |-> IF t.res = "Ok" THEN Append(outcome.tokens, t.tok)
                                     ELSE outcome.tokens,
                          start |-> skip_whitespace(applied.args, applied.pos)]
    /\ UNCHANGED <<loop_vars, overflow_checks>>

NextLexer ==
    \/ Fresh /\ \E text \in Texts : LexerInit(text)
    \/ NextToken

SpecLexer == Init /\ [][NextLexer]_vars

(***************************************************************************)
(* The parser on its own: parse_program applied to one token sequence.     *)
(* The sequences are the three-operand chains over the binary operators,   *)
(* the prefix operators before an operand of a binary operator, of a call  *)
(* and of an index, the chains with an index expression in the middle      *)
(* (with and without the closing bracket), every prefix of some well       *)
(* formed programs, and every sequence of up to MaxTokens tokens.          *)
(***************************************************************************)
MaxTokens == 3

BinaryTokens == {tEq, tNotEq, tLt, tGt, tPlus, tMinus, tAsterisk, tSlash}
PrefixTokens == {tMinus, tBang}
TokenAlphabet ==
    {tIdent("a"), tPlus, tLParen, tRParen, tLBracket, tRBracket, tLBrace, tRBrace,
     tComma, tColon, tSemicolon, tAssign, tLet, tReturn, tIf, tElse, tFunction,
     tIllegal}

\* x op1 y op2 z
Chain(op1, op2) == <<tIdent("x"), op1, tIdent("y"), op2, tIdent("z")>>
ChainInputs == {Chain(op1, op2) : op1 \in BinaryTokens, op2 \in BinaryTokens}

\* pre a op b, pre a[0], pre a(0)
PrefixBinary(pre, op) == <<pre, tIdent("a"), op, tIdent("b")>>
PrefixIndex(pre) == <<pre, tIdent("a"), tLBracket, tInt(0), tRBracket>>
PrefixCall(pre) == <<pre, tIdent("a"), tLParen, tInt(0), tRParen>>
PrefixBinaryInputs == {PrefixBinary(pre, op) : pre \in PrefixTokens, op \in BinaryTokens}
PrefixIndexInputs == {PrefixIndex(pre) : pre \in PrefixTokens}
PrefixCallInputs == {PrefixCall(pre) : pre \in PrefixTokens}
PrefixInputs == PrefixBinaryInputs \cup PrefixIndexInputs \cup PrefixCallInputs

\* x op1 y[i op3 j] op2 z, and the same without the closing bracket
IndexChain(op1, op3, op2) ==
    <<tIdent("x"), op1, tIdent("y"), tLBracket, tIdent("i"), op3, tIdent("j"),
      tRBracket, op2, tIdent("z")>>
IndexUnclosed(op1, op3, op2) ==
    <<tIdent("x"), op1, tIdent("y"), tLBracket, tIdent("i"), op3, tIdent("j"),
      op2, tIdent("z")>>
\* a * [1, 2, 3, 4][b * c] * d
InArrayIndexing ==
    <<tIdent("a"), tAsterisk, tLBracket, tInt(1), tComma, tInt(2), tComma, tInt(3),
      tComma, tInt(4), tRBracket, tLBracket, tIdent("b"), tAsterisk, tIdent("c"),
      tRBracket, tAsterisk, tIdent("d")>>
IndexChainInputs ==
    {IndexChain(op1, op3, op2) :
         op1 \in BinaryTokens, op3 \in BinaryTokens, op2 \in BinaryTokens}
IndexUnclosedInputs ==
    {IndexUnclosed(op1, op3, op2) :
         op1 \in BinaryTokens, op3 \in BinaryTokens, op2 \in BinaryTokens}
IndexInputs == IndexChainInputs \cup IndexUnclosedInputs \cup {InArrayIndexing}

\* if (a) { [a, a] } else { {a: a} }  fn(a, a) { (a) }  a(a, a)
InIfElse ==
    <<tIf, tLParen, tIdent("a"), tRParen, tLBrace, tLBracket, tIdent("a"), tComma,
      tIdent("a"), tRBracket, tRBrace, tElse, tLBrace, tLBrace, tIdent("a"), tColon,
      tIdent("a"), tRBrace, tRBrace>>
InFnLiteral ==
    <<tFunction, tLParen, tIdent("a"), tComma, tIdent("a"), tRParen, tLBrace,
      tLParen, tIdent("a"), tRParen, tRBrace>>
InCallList == <<tIdent("a"), tLParen, tIdent("a"), tComma, tIdent("a"), tRParen>>
WellFormed == {InIfElse, InFnLiteral, InCallList}
Prefixes(ts) == {SubSeq(ts, 1, k) : k \in 0..Len(ts)}
PrefixesOfWellFormed == UNION {Prefixes(ts) : ts \in WellFormed}

ShortSequences == UNION {[1..k -> TokenAlphabet] : k \in 0..MaxTokens}

ParserInputs ==
    ChainInputs \cup PrefixInputs \cup IndexInputs \cup PrefixesOfWellFormed
        \cup ShortSequences

\* Parser::init(tokens).parse_program()
ParseProgram(ts) ==
    /\ applied' = [op |-> "parse_program", args |-> ts]
    /\ outcome' = parse_program(ts)
    /\ UNCHANGED <<loop_vars, overflow_checks>>

NextParser == Fresh /\ \E ts \in ParserInputs : ParseProgram(ts)

SpecParser == Init /\ [][NextParser]_vars

(***************************************************************************)
(* Properties.                                                             *)
(***************************************************************************)
\* the bindings of the root environment
RootVariables == heap[Root].variables
\* some frame binds the name
Bound(name) == \E env \in DOMAIN heap : name \in DOMAIN heap[env].variables
\* the memory an evaluation in the current state starts from
Memory == [heap |-> heap, calls |-> <<>>, depth |-> 0]

\* C1: the value eval_with_env returns is never a Return marker
C1_ReturnNeverEscapes == result.res = "Ok" => result.obj.kind # "Return"

\* C2: a return executed inside if-blocks nested to any depth leaves every
\* enclosing block still wrapped, ends the program or the function call
\* with the returned value, and no statement that follows it in an enclosing
\* block is evaluated: the let after it never binds
C2_NestedReturnEndsEnclosing ==
    /\ \A d \in 1..MaxDepth :
           LET block == StmtBlock(parse_program(SrcNestedReturn(d)).statements)
               r == Statement_eval(block, Root, Memory)
           IN  r.res = "Ok" /\ r.obj = ObjReturn(ObjInt(10))
    /\ input \in NestedInputs => (result = Ok(ObjInt(10)) /\ ~Bound("dead"))

\* C3: a return in the body of a user function ends only that call: the call
\* yields the returned value and never a Return marker, and the caller
\* evaluates the statements that follow the call
C3_ReturnEndsOnlyTheCall ==
    /\ \A k \in DOMAIN calls : calls[k].res = "Ok" => calls[k].obj.kind # "Return"
    /\ input = InCallReturns =>
           result = Ok(ObjInt(5)) /\ "after" \in DOMAIN RootVariables
    /\ input = InCallReturnOfReturn => "later" \in DOMAIN RootVariables

\* C4: a free identifier of a function body is resolved through the
\* environment the function literal was evaluated in, also after the function
\* that made it has returned, and never through the scope of the caller
C4_LexicalScope ==
    /\ \A k \in DOMAIN calls :
           heap[calls[k].frame].outer = calls[k].func.environment
    /\ (input = InClosureUse /\ "addtwo" \in DOMAIN RootVariables) =>
           result = Ok(ObjInt(5))
    /\ input = InCallerScope => result = Ok(Null)

C4_Witness ==
    /\ input = InClosureUse
    /\ "addtwo" \in DOMAIN RootVariables
    /\ result = Ok(ObjInt(5))

\* C5: every call of a user function binds its parameters and the lets of
\* its body in a frame made new for the call, and changes no frame that
\* existed before it; a body let shadows an outer binding without changing
\* it, and a later call does not see the bindings of an earlier one
C5_CallBindsInFreshFrame ==
    /\ \A k \in DOMAIN calls :
           /\ calls[k].frame = calls[k].base + 1
           /\ calls[k].changed = {}
           /\ \A j \in DOMAIN calls[k].func.parameters :
                  calls[k].func.parameters[j] \in calls[k].names
    /\ input = InShadow =>
           /\ result = Ok(ObjInt(7))
           /\ RootVariables["sv"] = ObjInt(1)
           /\ "a" \notin DOMAIN RootVariables
           /\ "b" \notin DOMAIN RootVariables
    /\ input = InLaterCall => result = Ok(Null)

C5_Witness ==
    /\ input = InShadow
    /\ Len(calls) = 1
    /\ calls[1].names = {"a", "sv", "b"}
    /\ RootVariables["sv"] = ObjInt(1)

\* C6: a function value shares its defining scope: its body sees what a let
\* bound or rebound there after the function literal was evaluated, so a
\* function bound by let can call itself by name and an inner helper can
\* recurse
C6_ClosureSharesScope ==
    /\ input = InRecursive => result = Ok(ObjInt(0))
    /\ input = InRebind => result = Ok(ObjInt(2))
    /\ (input = InRebindLater /\ "read" \in DOMAIN RootVariables) =>
           result = Ok(ObjInt(7))
    /\ input = InMap => result = Ok(ObjArray(<<ObjInt(2), ObjInt(4)>>))

C6_Witness ==
    /\ input = InRebindLater
    /\ "read" \in DOMAIN RootVariables
    /\ result = Ok(ObjInt(7))

\* the k-th frame of the chain of env, 0 past its end
RECURSIVE Outer(_, _)
Outer(env, k) ==
    IF k = 0 \/ env = 0 THEN env ELSE Outer(heap[env].outer, k - 1)
\* the value of the name in the nearest frame of the chain of env that binds it
Nearest(env, name) ==
    LET binding == {k \in 0..Len(heap) :
                       Outer(env, k) # 0 /\ name \in DOMAIN heap[Outer(env, k)].variables}
    IN  IF binding = {} THEN Null
        ELSE LET k == CHOOSE k \in binding : \A j \in binding : k <= j
             IN  heap[Outer(env, k)].variables[name]
\* the names some frame binds, and one that none binds
Names == UNION {DOMAIN heap[env].variables : env \in DOMAIN heap} \cup {"zz"}

\* C7: get returns the value bound in the nearest frame of the chain that
\* binds the name, and Null when none does; an unbound identifier evaluates
\* to Null and not to an error
C7_GetNearestBinding ==
    /\ \A env \in DOMAIN heap : \A name \in Names :
           get(heap, env, name) = Nearest(env, name)
    /\ input = InUnbound => result = Ok(Null)

C7_Witness ==
    /\ input = InShadow
    /\ \E env \in DOMAIN heap :
           /\ get(heap, env, "sv") = ObjInt(2)
           /\ get(heap, heap[env].outer, "sv") = ObjInt(1)
           /\ get(heap, env, "zz") = Null

\* the input has a let of the name
HasLet(ts, name) ==
    \E i \in 1..(Len(ts) - 1) : ts[i] = tLet /\ ts[i + 1] = tIdent(name)

\* the names Expression::Ident resolves before it asks the environment
ReservedNames == {"null", "len", "first", "last", "rest", "push"}

\* one input of the loop, for each of the names: no binding of the root
\* environment is removed, its value stays unless the input has a let of the
\* name, and the name evaluates to the value bound
RootPersists(names) ==
    \A name \in DOMAIN heap[Root].variables \cap names :
        /\ name \in DOMAIN heap'[Root].variables
        /\ heap'[Root].variables[name] # heap[Root].variables[name] =>
               HasLet(input', name)
        /\ Expression_eval(ExprIdent(name), Root, [heap |-> heap', calls |-> <<>>, depth |-> 0]).obj
               = heap'[Root].variables[name]
        /\ input' = SrcId(name) => result' = Ok(heap[Root].variables[name])

\* C8 (as stated): a name bound by a top-level let in one input resolves to
\* that value in every later input until a later let of the name replaces
\* it, and no binding of the root environment is ever removed
C8_RootPersists == [][RootPersists(Names)]_vars

\* C8 (amended): the same for every name but null, len, first, last, rest
\* and push, which never resolve through the environment
C8_RootPersistsUnreserved == [][RootPersists(Names \ ReservedNames)]_vars

C8_Witness ==
    /\ n = 2
    /\ input = InProbe
    /\ result = Ok(ObjInt(1))

\* C9: when the parse of an input fails, eval_with_env returns the error and
\* has evaluated no statement of it: the environment is what it was
C9_ParseErrorEvaluatesNothing ==
    [][~parse_program(input').ok => (heap' = heap /\ result' = Err)]_vars

C9_Witness ==
    /\ input \in ParseErrorInputs
    /\ result = Err
    /\ "sv" \in DOMAIN RootVariables
    /\ "pa" \notin DOMAIN RootVariables

\* C10: when a statement fails at runtime eval_with_env returns the error
\* and no value, and no statement after the failing one is evaluated
C10_RuntimeErrorStopsProgram ==
    input \in RuntimeErrorInputs => (result = Err /\ ~Bound("skipped"))

\* the object a reserved name stands for
ReservedObject(name) ==
    CASE name = "null" -> Null
      [] name = "len" -> ObjBuiltin("Len")
      [] name = "first" -> ObjBuiltin("First")
      [] name = "last" -> ObjBuiltin("Last")
      [] name = "rest" -> ObjBuiltin("Rest")
      [] name = "push" -> ObjBuiltin("Push")

\* C11: in every environment the identifier null evaluates to Null and len,
\* first, last, rest and push to their builtins, also where a let or a
\* parameter of the same name is in scope
C11_ReservedNamesUnshadowed ==
    /\ \A env \in DOMAIN heap : \A name \in ReservedNames :
           Expression_eval(ExprIdent(name), env, Memory) = EvOk(ReservedObject(name), Memory)
    /\ input = InProbeLen => result = Ok(ObjBuiltin("Len"))
    /\ input = InReservedNames => result = Ok(ObjBuiltin("Len"))

C11_Witness ==
    /\ input = InReservedNames
    /\ "len" \in DOMAIN RootVariables
    /\ "null" \in DOMAIN RootVariables
    /\ \E env \in DOMAIN heap :
           {"first", "push", "rest", "last"} \subseteq DOMAIN heap[env].variables
    /\ result = Ok(ObjBuiltin("Len"))
\* C12: a call with a wrong number of arguments fails with an error: of a
\* user function, whose body is then not evaluated, and of a builtin, push
\* with three arguments included
C12_WrongArityFails ==
    input \in ArityInputs => (result = Err /\ ~Bound("skipped"))
\* C13: a / b on Ints with b = 0 gives an error result, not a value and not
\* an abort; with b # 0 the quotient truncated toward zero
C13_DivisionByZeroIsAnError ==
    applied.op = "Div" =>
        LET a == applied.args[1]
            b == applied.args[2]
        IN  /\ b = 0 => outcome = Err
            /\ (b # 0 /\ ~(a = i64_MIN /\ b = -1)) =>
                   /\ outcome.res = "Ok"
                   /\ outcome.obj.kind = "Int"
                   /\ LET q == outcome.obj.i
                          rem == a - q * b
                      IN  \* q is a / b rounded toward zero
                          /\ (IF rem < 0 THEN -rem ELSE rem) < (IF b < 0 THEN -b ELSE b)
                          /\ rem = 0 \/ ((rem < 0) = (a < 0))

\* the exact result of an arithmetic operation on Ints
Exact(op, args) ==
    CASE op = "Add" -> args[1] + args[2]
      [] op = "Sub" -> args[1] - args[2]
      [] op = "Mul" -> args[1] * args[2]
      [] op = "Div" -> TruncDiv(args[1], args[2])
      [] op = "Neg" -> -args[1]

\* C14: a + b, a - b, a * b, a / b (b # 0) and -a give the wrapping signed
\* result or fail with an error result; an overflowing operation gives no
\* other value and never aborts outside the error channel
C14_ArithmeticWrapsOrFails ==
    (applied.op \in ArithmeticOperators \cup {"Neg"}
        /\ ~(applied.op = "Div" /\ applied.args[2] = 0)) =>
        \/ outcome = Ok(ObjInt(wrapping(Exact(applied.op, applied.args))))
        \/ outcome = Err
\* next_token has been called on a lexer
Lexed == applied.op = "Lexer" /\ applied.calls > 0
\* the last index of the run of decimal digits that begins at from
RECURSIVE DigitRunEnd(_, _)
DigitRunEnd(text, from) ==
    IF from < Len(text) /\ text[from + 1] \in AsciiDigit
    THEN DigitRunEnd(text, from + 1) ELSE from
\* the number the decimal digits text[from..to] write
RECURSIVE DecimalValue(_, _, _)
DecimalValue(text, from, to) ==
    IF to < from THEN 0
    ELSE 10 * DecimalValue(text, from, to - 1) + to_digit(text[to])[1]

\* C15: for a run of decimal digits whose value is at most i64::MAX the
\* lexer emits Int of exactly that value, also above u32::MAX; for a run
\* that does not fit the i64 it fails cleanly and emits no wrong value
C15_IntLiteralExact ==
    (Lexed /\ outcome.start <= Len(applied.args)
           /\ applied.args[outcome.start] \in AsciiDigit) =>
        LET text == applied.args
            v == DecimalValue(text, outcome.start, DigitRunEnd(text, outcome.start))
        IN  IF v <= i64_MAX
            THEN outcome.res = "Ok" /\ outcome.tokens[Len(outcome.tokens)] = tInt(v)
            ELSE outcome.res # "Panic"
                 /\ outcome.tokens[Len(outcome.tokens)].type # "Int"

\* the last call of next_token returned an Ident
IdentLexed ==
    Lexed /\ outcome.res = "Ok" /\ outcome.tokens[Len(outcome.tokens)].type = "Ident"

C17_EofForever ==
    applied.op = "Lexer" =>
        LET text == applied.args
            tokens == outcome.tokens
            all == get_all_tokens(text)
        IN  /\ \A i \in DOMAIN tokens : \A j \in DOMAIN tokens :
                   (i < j /\ tokens[i] = tEof) => tokens[j] = tEof
            /\ (outcome.res = "Ok" /\ applied.calls > Len(text)) =>
                   tokens[Len(tokens)] = tEof
            /\ (applied.calls > 0 /\ \A k \in DOMAIN text : text[k] = " ") =>
                   (outcome.res = "Ok" /\ tokens[1] = tEof)
            /\ all.res = "Ok"
            /\ all.tokens # <<>>
            /\ \A k \in DOMAIN all.tokens : (all.tokens[k] = tEof) <=> (k = Len(all.tokens))

\* the program of the single expression statement e
ProgramOf(e) == [ok |-> TRUE, statements |-> <<StmtExpr(e)>>]
\* the binary operators from the loosest to the tightest
Levels == <<{tEq, tNotEq}, {tLt, tGt}, {tPlus, tMinus}, {tAsterisk, tSlash}>>
Level(tok) == CHOOSE k \in DOMAIN Levels : tok \in Levels[k]
Binary(tok, l, r) == ExprInfix(InfixOperator_try_from(tok), l, r)
Unary(tok, r) == ExprPrefix(PrefixOperator_try_from(tok), r)
\* x op1 y op2 z with y grouped to the side the precedences give it
Grouped(x, op1, y, op2, z) ==
    IF Level(op2) > Level(op1)
    THEN Binary(op1, x, Binary(op2, y, z))
    ELSE Binary(op2, Binary(op1, x, y), z)

\* C18: x op1 y op2 z over the eight binary operators groups y with z
\* exactly when op2 has strictly higher precedence than op1 and builds
\* (x op1 y) first otherwise; a prefix - or ! binds tighter than every
\* binary operator and looser than a call or an index
C18_PrecedenceGrouping ==
    applied.op = "parse_program" =>
        LET ts == applied.args
        IN  /\ ts \in ChainInputs =>
                   outcome = ProgramOf(Grouped(ExprIdent("x"), ts[2], ExprIdent("y"),
                                               ts[4], ExprIdent("z")))
            /\ ts \in PrefixBinaryInputs =>
                   outcome = ProgramOf(Binary(ts[3], Unary(ts[1], ExprIdent("a")),
                                              ExprIdent("b")))
            /\ ts \in PrefixIndexInputs =>
                   outcome = ProgramOf(Unary(ts[1], ExprInfix("Index", ExprIdent("a"),
                                                              ExprInt(0))))
            /\ ts \in PrefixCallInputs =>
                   outcome = ProgramOf(Unary(ts[1], ExprCall(ExprIdent("a"),
                                                             <<ExprInt(0)>>)))

C18_Witness ==
    /\ applied.op = "parse_program"
    /\ applied.args = Chain(tMinus, tMinus)
    /\ outcome = ProgramOf(ExprInfix("Sub", ExprInfix("Sub", ExprIdent("x"), ExprIdent("y")),
                                     ExprIdent("z")))

\* C19: e[i] parses to Infix(Index, e, i) with i a complete expression
\* whatever operators stand around the index and inside it; without the
\* closing bracket the parse is an error; after the bracket the parse goes
\* on at the precedence of the surrounding expression
C19_IndexExpression ==
    applied.op = "parse_program" =>
        LET ts == applied.args
        IN  /\ ts \in IndexChainInputs =>
                   outcome = ProgramOf(Grouped(
                       ExprIdent("x"), ts[2],
                       ExprInfix("Index", ExprIdent("y"),
                                 Binary(ts[6], ExprIdent("i"), ExprIdent("j"))),
                       ts[9], ExprIdent("z")))
            /\ ts \in IndexUnclosedInputs => ~outcome.ok
            /\ ts = InArrayIndexing =>
                   outcome = ProgramOf(ExprInfix("Mul",
                       ExprInfix("Mul", ExprIdent("a"),
                           ExprInfix("Index",
                               ExprArray(<<ExprInt(1), ExprInt(2), ExprInt(3), ExprInt(4)>>),
                               ExprInfix("Mul", ExprIdent("b"), ExprIdent("c")))),
                       ExprIdent("d")))

C19_Witness ==
    /\ applied.op = "parse_program"
    /\ applied.args = InArrayIndexing
    /\ outcome.ok
    /\ outcome.statements[1].expr.left.right.operator = "Index"

\* the number of tokens of a type in a token sequence
Count(ts, type) == Cardinality({k \in DOMAIN ts : ts[k].type = type})
\* more opening than closing tokens of some kind
Unclosed(ts) ==
    \/ Count(ts, "LParen") > Count(ts, "RParen")
    \/ Count(ts, "LBracket") > Count(ts, "RBracket")
    \/ Count(ts, "LBrace") > Count(ts, "RBrace")

C21_UnboundedRecursionFailsSafely ==
    input = InUnboundedRecursion =>
        /\ result.res = "Err"
        /\ ~crashed
        /\ "forever" \in DOMAIN RootVariables

\* the tokens parse_prefix has a rule for
PrefixRuleTypes ==
    {"Bang", "Minus", "Ident", "Int", "String", "True", "False", "LParen", "If",
     "Function", "LBracket", "LBrace"}

\* C22: a token sequence whose first statement begins with a token that is
\* neither Let nor Return and has no prefix rule is a parse error
C22_NoPrefixRuleIsAnError ==
    (/\ applied.op = "parse_program"
     /\ applied.args # <<>>
     /\ applied.args[1].type \notin PrefixRuleTypes \cup {"Let", "Return"})
        => ~outcome.ok

\* the value inside the Return markers around a value
RECURSIVE Unwrapped(_)
Unwrapped(o) == IF o.kind = "Return" THEN Unwrapped(o.obj) ELSE o
\* the values that count as false
Falsy ==
    {Null, ObjBool(FALSE), ObjInt(0), ObjString(<<>>), ObjArray(<<>>), ObjHash(NoVariables)}
Truthy(x) == Unwrapped(x) \notin Falsy

\* C23: a value is false exactly when it is Null, Bool(false), Int(0), the
\* empty string, array or hash, or a Return of one of these; !x is
\* Bool(not truthy), !!x is Bool(truthy), an if-expression evaluates its
\* then-block iff the condition is truthy, its else-block otherwise, and
\* yields Null when the condition is falsy and there is no else
C23_Truthiness ==
    applied.op = "to_bool" =>
        LET x == applied.args[1]
            t == Truthy(x)
        IN  /\ outcome.to_bool = t
            /\ outcome.not.res = "Ok" /\ outcome.not.obj = ObjBool(~t)
            /\ outcome.notnot.res = "Ok" /\ outcome.notnot.obj = ObjBool(t)
            /\ outcome.cond_else.res = "Ok"
            /\ outcome.cond_else.obj = (IF t THEN ObjInt(1) ELSE ObjInt(2))
            /\ outcome.cond_else.names = {"x"} \cup (IF t THEN {"taken"} ELSE {"other"})
            /\ outcome.cond.res = "Ok"
            /\ outcome.cond.obj = (IF t THEN ObjInt(1) ELSE Null)
            /\ outcome.cond.names = {"x"} \cup (IF t THEN {"taken"} ELSE {})

C23_Witness ==
    /\ applied.op = "to_bool"
    /\ applied.args = <<ObjInt(-1)>>
    /\ outcome.to_bool
    /\ outcome.not.obj = ObjBool(FALSE)
    /\ outcome.cond.names = {"x", "taken"}

\* the operand combinations an infix operator is defined on
Listed(operator, l, r) ==
    \/ l.kind = "Null" /\ r.kind = "Null"
    \/ l.kind = "Bool" /\ r.kind = "Bool" /\ operator \in {"Eq", "NotEq"}
    \/ l.kind = "Int" /\ r.kind = "Int" /\ operator # "Index"
    \/ l.kind = "String" /\ r.kind = "String" /\ operator = "Add"
    \/ l.kind = "Array" /\ r.kind = "Int" /\ operator = "Index"
    \/ l.kind = "Hash" /\ r.kind \in {"Int", "String", "Bool"} /\ operator = "Index"

\* C24: an infix operation yields a value only on the listed combinations
\* of operands and operator, Null with Null yields Null under every
\* operator, no listed combination is rejected, and every other
\* combination fails with an error
C24_InfixTypeErrors ==
    applied.op = "eval_infix" =>
        LET operator == applied.args[1]
            l == applied.args[2]
            r == applied.args[3]
        IN  /\ outcome.res = "Ok" => Listed(operator, l, r)
            /\ Listed(operator, l, r) => outcome.res # "Err"
            /\ ~Listed(operator, l, r) => outcome = Err
            /\ (l = Null /\ r = Null) => outcome = Ok(Null)

C24_Witness ==
    /\ applied.op = "eval_infix"
    /\ applied.args = <<"Eq", ObjString(<<"a">>), ObjString(<<"a">>)>>
    /\ outcome = Err

\* C25: len(push(arr, x)) = len(arr) + 1 and last(push(arr, x)) = x; of the
\* array built by pushing the elements of arr onto [x], first is x and
\* rest is arr; first, rest and last of the empty array are Null; push
\* returns a new value and a name bound to arr still evaluates to arr
C25_PushLaws ==
    applied.op = "push" =>
        LET arr == applied.args[1]
            x == applied.args[2]
        IN  /\ outcome.len_arr.res = "Ok"
            /\ outcome.len = Ok(ObjInt(outcome.len_arr.obj.i + 1))
            /\ outcome.len_arr.obj.i = Len(arr.elems)
            /\ outcome.last = Ok(x)
            /\ outcome.first_built = Ok(x)
            /\ outcome.rest_built = Ok(arr)
            /\ arr.elems = <<>> =>
                   outcome.first = Ok(Null) /\ outcome.rest = Ok(Null)
                       /\ outcome.last_arr = Ok(Null)
            /\ outcome.pushed.res = "Ok" /\ outcome.pushed.obj # arr
            /\ outcome.after.res = "Ok" /\ outcome.after.obj = arr
            /\ outcome.after.variables["arr"] = arr

C25_Witness ==
    /\ applied.op = "push"
    /\ applied.args = <<ObjArray(<<ObjInt(0), ObjInt(1)>>), Null>>
    /\ outcome.len = Ok(ObjInt(3))
    /\ outcome.rest_built = Ok(applied.args[1])

\* the step last taken by the current input
Ord == RootVariables["ord"]

\* C26: sub-expressions are evaluated left to right (operands, elements,
\* key then value, callee then arguments, all of them before the callee is
\* checked and before the arity check), and the first failure stops the
\* traversal: the steps after it are not taken
C26_LeftToRight ==
    /\ input = InOrderInfix => (result = Ok(ObjInt(3)) /\ Ord = ObjInt(2))
    /\ input = InOrderArray =>
           (result = Ok(ObjArray(<<ObjInt(1), ObjInt(2), ObjInt(3)>>)) /\ Ord = ObjInt(3))
    /\ input = InOrderHash => (result.res = "Ok" /\ Ord = ObjInt(4))
    /\ input = InOrderCall => (result = Ok(ObjInt(3)) /\ Ord = ObjInt(3))
    /\ input = InOrderNotCallable => (result.res = "Err" /\ Ord = ObjInt(2))
    /\ input = InOrderArity => (result.res = "Err" /\ Ord = ObjInt(2))
    /\ input = InStopArray => (result.res = "Err" /\ Ord = ObjInt(1))
    /\ input = InStopInfix => (result.res = "Err" /\ Ord = ObjInt(0))
    /\ input = InStopCallee => (result.res = "Err" /\ Ord = ObjInt(0))
    /\ input = InStopArgs => (result.res = "Err" /\ Ord = ObjInt(1))
    /\ input = InStopHash => (result.res = "Err" /\ Ord = ObjInt(1))
    /\ input = InStopHashKey => (result.res = "Err" /\ Ord = ObjInt(0))

C26_Witness ==
    /\ input = InStopArray
    /\ result.res = "Err"
    /\ Ord = ObjInt(1)

\* a value that is no Return marker and holds none as an element
RECURSIVE NoReturnInside(_)
NoReturnInside(o) ==
    CASE o.kind = "Return" -> FALSE
      [] o.kind = "Array" -> \A k \in DOMAIN o.elems : NoReturnInside(o.elems[k])
      [] o.kind = "Hash" -> \A k \in DOMAIN o.map : NoReturnInside(o.map[k])
      [] OTHER -> TRUE

\* C27: no environment frame (of the program or of a call) binds a name to
\* a Return marker or to an Array or Hash that holds one
C27_NoReturnMarkerKept ==
    \A env \in DOMAIN heap : \A name \in DOMAIN heap[env].variables :
        NoReturnInside(heap[env].variables[name])

\* C28: the blocks of an if-expression are evaluated in the frame of the
\* enclosing program or call: a let in the taken branch binds or
\* overwrites there and stays visible, the other branch binds nothing,
\* and no frame is made for the if-expression
C28_IfOpensNoScope ==
    /\ input = InIfScope =>
           /\ RootVariables["sc"] = ObjInt(2)
           /\ RootVariables["inif"] = ObjInt(3)
           /\ "nottaken" \notin DOMAIN RootVariables
           /\ n = 1 => Len(heap) = 1
    /\ input = InIfScopeCall =>
           /\ result = Ok(ObjInt(5))
           /\ \A k \in DOMAIN calls : calls[k].names = {"c", "local"}
           /\ ~Bound("other")
           /\ n = 1 => Len(heap) = 3

C28_Witness ==
    /\ input = InIfScope
    /\ RootVariables["sc"] = ObjInt(2)
    /\ "inif" \in DOMAIN RootVariables

\* C29: when an input fails at runtime the interpreter goes on with the
\* same root environment: the bindings made before the failure, by this
\* input and by earlier ones, are still there with their values
C29_FailureKeepsBindings ==
    /\ input \in {InFailAfterLets, InFailDivisionAfterLet} => ~crashed
    /\ input = InFailAfterLets =>
           /\ result.res = "Err"
           /\ RootVariables["kept"] = ObjInt(1)
           /\ RootVariables["kept2"] = ObjInt(2)
    /\ input = InFailDivisionAfterLet => RootVariables["kept"] = ObjInt(3)
    /\ (input = InProbeKept /\ "kept" \in DOMAIN RootVariables) =>
           result = Ok(RootVariables["kept"])

\* the calls of the function iter of reduce
IterCalls == {k \in DOMAIN calls : calls[k].func.parameters = <<"arrin", "result">>}
Arrin(k) == heap[calls[k].frame].variables["arrin"]
RECURSIVE SumTo(_)
SumTo(len) == IF len = 0 THEN 0 ELSE SumTo(len - 1) + len

\* C30: rest of a non-empty array is an array one element shorter, and the
\* recursion of reduce on an array of len elements ends with the reduced
\* value after len recursive calls of iter (len + 1 calls in all), each on
\* an array, of the lengths len, ..., 0
C30_RestRecursionTerminates ==
    /\ \A arr \in Arrays :
           arr.elems # <<>> =>
               LET r == BuiltinFunction_call("Rest", <<arr>>)
               IN  /\ r.res = "Ok" /\ r.obj.kind = "Array"
                   /\ BuiltinFunction_call("Len", <<r.obj>>) = Ok(ObjInt(Len(arr.elems) - 1))
    /\ \A len \in ReduceLengths : \A op \in ReduceOperators :
           input = InReduceOf(len, op) =>
               /\ result = Ok(ObjInt(IF op = tPlus THEN SumTo(len) ELSE 0))
               /\ Cardinality(IterCalls) = len + 1
               /\ \A k \in IterCalls : Arrin(k).kind = "Array"
               /\ {Len(Arrin(k).elems) : k \in IterCalls} = 0..len
====
